---- MODULE Spec2Model ----
(***************************************************************************)
(* Parking management system (kvnnty/PMS): the entry lane, the exit lane   *)
(* with its alarm worker, the payment handshake with the terminal (SQLite  *)
(* variant and CSV variant) and the operator tools, over one ledger.       *)
(*                                                                         *)
(* Time is the wall clock in whole seconds.  Plates and OCR strings are    *)
(* sequences of one-character strings.  The ledger table vehicle_log has   *)
(* the schema of initialize_db.py (the only schema under which the entry   *)
(* lane's INSERT names existing columns).                                  *)
(***************************************************************************)
EXTENDS Integers, Sequences, FiniteSets, TLC

\* ---------------------------------------------------------------- config
ENTRY_COOLDOWN == 300
EXIT_COOLDOWN == 300
ALERT_COOLDOWN == 30
MAX_DISTANCE == 50
MIN_DISTANCE == 0
CAPTURE_THRESHOLD == 3
GATE_OPEN_TIME == 15
ALARM_DURATION == 10
RATE_PER_MINUTE == 5
PRICE_PER_HOUR == 200
READY_TIMEOUT == 5
DONE_TIMEOUT == 10

\* ---------------------------------------------------------------- bounds
\* The wall clock when the processes start (time.time() is far above every
\* cooldown, so  now - 0 > cooldown  holds at the first decision).
Epoch == 1000
\* The clock stops advancing MaxElapsed seconds after Epoch.
MaxElapsed == 600
\* Regions the recognizer may report in one frame.
MaxRegions == 2
\* Rows vehicle_log may hold: an admission waits when the table is full.
MaxRows == 3
\* Alarm workers that may be alive at once.
MaxAlarms == 2

MaxClock == Epoch + MaxElapsed
TickSteps == {300}

\* ---------------------------------------------------------------- values
NoPlate == <<>>
NoTime == -1
NoRow == 0

RAB123A == <<"R", "A", "B", "1", "2", "3", "A">>
RAC456B == <<"R", "A", "C", "4", "5", "6", "B">>
Plates == {RAB123A, RAC456B}

Letters == {"A", "B", "C", "R", "X"}
Digits == {"1", "2", "3", "4", "5", "6"}

\* What the OCR may return for one region (after strip and removal of
\* blanks): well-formed plates, a plate followed by extra characters, and
\* strings broken in each of the ways the format test looks at.
OcrTexts ==
  { RAB123A, RAC456B,
    RAB123A \o <<"X">>,
    <<"R", "A", "B", "1", "2", "3">>,
    <<"R", "B", "A", "1", "2", "3", "A">>,
    <<"A", "R", "B", "1", "2", "3", "A">>,
    <<"R", "A", "1", "1", "2", "3", "A">>,
    <<"R", "A", "B", "1", "B", "3", "A">>,
    <<"R", "A", "B", "1", "2", "3", "4">>,
    <<"R", "A", "B", "-", "2", "3", "A">>,
    <<>> }

\* ------------------------------------------------------- plate validation
\* str.isalpha / str.isdigit on a non-empty slice.
IsAlpha(s) == Len(s) > 0 /\ \A i \in 1..Len(s) : s[i] \in Letters
IsDigit(s) == Len(s) > 0 /\ \A i \in 1..Len(s) : s[i] \in Digits

StartsWithRA(text) == Len(text) >= 2 /\ text[1] = "R" /\ text[2] = "A"

\* text[:7]
Plate7(text) == SubSeq(text, 1, 7)

\* The acceptance test without the test of the last character.
AcceptsText_no_suffix(text) ==
  /\ StartsWithRA(text)
  /\ Len(text) >= 7
  /\ IsAlpha(SubSeq(text, 1, 3))
  /\ IsDigit(SubSeq(text, 4, 6))

\* The acceptance test both lanes apply to an OCR string.
AcceptsText(text) ==
  /\ StartsWithRA(text)
  /\ Len(text) >= 7
  /\ IsAlpha(SubSeq(text, 1, 3))
  /\ IsDigit(SubSeq(text, 4, 6))
  /\ IsAlpha(SubSeq(text, 7, 7))

\* plate_buffer after one region's text has been looked at.
ObserveText(buffer, text) ==
  IF AcceptsText(text) THEN Append(buffer, Plate7(text)) ELSE buffer

\* The strings the format rule excludes: no region marker RA, fewer than
\* 7 characters, or the first 7 not 3 letters, 3 digits, 1 letter.
NotAPlate(text) ==
  \/ Len(text) < 2
  \/ text[1] # "R"
  \/ text[2] # "A"
  \/ Len(text) < 7
  \/ \E i \in {1, 2, 3, 7} : text[i] \notin Letters
  \/ \E i \in {4, 5, 6} : text[i] \notin Digits

\* ------------------------------------------------------------- consensus
CountOf(buffer, v) == Cardinality({i \in 1..Len(buffer) : buffer[i] = v})
FirstIndex(buffer, v) ==
  CHOOSE i \in 1..Len(buffer) :
    buffer[i] = v /\ \A j \in 1..(i - 1) : buffer[j] # v

\* Counter(plate_buffer).most_common(1)[0][0]: the keys are kept in the
\* order of first insertion and max() keeps the first key of highest count.
MostCommon(buffer) ==
  LET i == CHOOSE k \in 1..Len(buffer) :
             /\ FirstIndex(buffer, buffer[k]) = k
             /\ \A j \in 1..Len(buffer) :
                  \/ CountOf(buffer, buffer[j]) < CountOf(buffer, buffer[k])
                  \/ /\ CountOf(buffer, buffer[j]) = CountOf(buffer, buffer[k])
                     /\ FirstIndex(buffer, buffer[j]) >= k
  IN buffer[i]

\* ---------------------------------------------------------------- ledger
\* One row of vehicle_log.  due_type is the SQLite storage class of the
\* due_payment column: the entry lane stores the empty string (kept as
\* text by a REAL column), other writers store a number.
VehicleRow(plate, entry, exit, status, dtype, due) ==
  [car_plate |-> plate, entry_time |-> entry, exit_time |-> exit,
   payment_status |-> status, due_type |-> dtype, due_payment |-> due,
   is_exited |-> 0]

AlertRow(plate, at, due, type) ==
  [car_plate |-> plate, alert_time |-> at, due_payment |-> due,
   alert_type |-> type, resolved |-> 0]

\* Row numbers of the unpaid rows of a plate.
UnpaidRows(log, plate) ==
  {i \in 1..Len(log) : log[i].car_plate = plate /\ log[i].payment_status = "0"}

\* The lookup with the status flag inverted: counts the paid rows.
has_unpaid_record_paid(log, plate) ==
  Cardinality({i \in 1..Len(log) :
                 log[i].car_plate = plate /\ log[i].payment_status = "1"}) > 0

\* The lookup that never finds an unpaid row.
has_unpaid_record_never(log, plate) == Cardinality(UnpaidRows(log, plate)) < 0

\* has_unpaid_record: SELECT COUNT(*) ... payment_status = '0'; count > 0
has_unpaid_record(log, plate) == Cardinality(UnpaidRows(log, plate)) > 0

\* The insert with the row already marked paid.
insert_vehicle_log_paid(log, plate, now) ==
  Append(log, VehicleRow(plate, now, NoTime, "1", "text", 0))

\* insert_vehicle_log: entry_time now, exit_time '', due_payment '',
\* payment_status '0', is_exited '0'.
insert_vehicle_log(log, plate, now) ==
  Append(log, VehicleRow(plate, now, NoTime, "0", "text", 0))

\* ------------------------------------------------------------- variables
VARIABLES
  clock,                    \* wall clock, seconds
  vehicle_log,              \* table vehicle_log, indexed by row number
  unauthorized_exit_alerts, \* table unauthorized_exit_alerts
  \* entry lane (car_entry.py main)
  e_arduino,                \* the gate controller is connected
  e_pc,                     \* "frame", "regions", "hold", "terminated"
  e_left,                   \* regions of the current frame still to read
  e_buffer,                 \* plate_buffer
  last_saved_plate,
  last_entry_time,
  e_common,                 \* common of the decision in progress
  e_now,                    \* now of the decision in progress
  e_serial,                 \* bytes written to the entry gate controller
  e_last,                   \* what the last decision observed and did
  e_junk,                   \* the region just read was not a plate string
  \* exit lane (car_exit.py main) and its alarm workers
  x_arduino,                \* the gate/alarm controller is connected
  x_pc,                     \* "frame", "regions", "check", "hold", "terminated"
  x_left,                   \* regions of the current frame still to read
  x_buffer,                 \* plate_buffer
  last_processed_plate,
  last_exit_time,
  last_alert_time,
  x_common,                 \* common of the decision in progress
  x_now,                    \* now of the decision in progress
  x_serial,                 \* bytes written to the exit controller
  x_threads,                \* alarm workers: [pc, since]
  x_junk,                   \* the region just read was not a plate string
  x_outcome                 \* how the last decision of this frame ended:
                            \* "none", "cooldown", "skipped", "denied",
                            \* "settled", "error"

xvars == <<x_arduino, x_pc, x_left, x_buffer, last_processed_plate,
           last_exit_time, last_alert_time, x_common, x_now, x_serial,
           x_threads, x_junk, x_outcome>>
evars == <<e_arduino, e_pc, e_left, e_buffer, last_saved_plate,
           last_entry_time, e_common, e_now, e_serial, e_last, e_junk>>
dbvars == <<vehicle_log, unauthorized_exit_alerts>>

VARIABLES
  \* payment handshake on the SQLite ledger (pms_hardware process_payment.py)
  p_pc,                     \* "off", "listen", "wait_ready", "wait_done"
  p_rowid,                  \* rowid of the record selected
  p_exit_time,              \* exit_time = datetime.now() of the handshake
  p_amount_due,
  p_new_balance,
  p_start_time,             \* start_time of the wait in progress
  p_serial,                 \* what the handshake wrote to the terminal
  p_confirm,                \* the line last read while waiting for DONE
  \* payment handshake on the CSV ledger (src/src/process_payment.py)
  c_pc,                     \* "off", "listen", "wait_done"
  plates_log,               \* rows of plates_log.csv, in file order
  c_plate,
  c_now,
  c_hundredths,             \* duration_hours, in hundredths of an hour
  c_amount_due,
  c_start_time,             \* when PAY was written
  c_serial,                 \* what the handshake wrote to the terminal
  c_response                \* the line read after PAY

pvars == <<p_pc, p_rowid, p_exit_time, p_amount_due, p_new_balance,
           p_start_time, p_serial, p_confirm>>
cvars == <<c_pc, plates_log, c_plate, c_now, c_hundredths, c_amount_due,
           c_start_time, c_serial, c_response>>
payvars == <<pvars, cvars>>

VARIABLES
  \* operator API (server/app.py)
  s_response                \* the response to the last request

svars == <<s_response>>
vars == <<clock, dbvars, evars, xvars, payvars, svars>>

\* ---------------------------------------------------------------- sensor
\* A line of the distance sensor: nothing waiting, or a line with or
\* without the DIST: prefix whose body is a number or not.
SensorLines ==
  [waiting : {FALSE}, prefix : {FALSE}, numeric : {FALSE}, val : {0}]
  \cup [waiting : {TRUE}, prefix : BOOLEAN, numeric : {FALSE}, val : {0}]
  \cup [waiting : {TRUE}, prefix : BOOLEAN, numeric : {TRUE},
        val : {0, 25, 50, 51}]

NoReading == -1

\* car_entry.read_distance: float(line), None when nothing is waiting, no
\* controller, or the line is not a number.
entry_read_distance(arduino, line) ==
  IF ~arduino \/ ~line.waiting THEN NoReading
  ELSE IF line.numeric /\ ~line.prefix THEN line.val
  ELSE NoReading

\* read_distance(arduino) or (MAX_DISTANCE - 1): None and 0.0 are falsy.
OrDefault(reading) ==
  IF reading = NoReading \/ reading = 0 THEN MAX_DISTANCE - 1 ELSE reading

InRange(distance) == MIN_DISTANCE <= distance /\ distance <= MAX_DISTANCE

CountByte(serial, b) == Cardinality({i \in 1..Len(serial) : serial[i] = b})

\* ------------------------------------------------------------ entry lane
\* One pass of the while loop up to the region loop: frame read, distance
\* gate, detection of n regions.
EntryFrame(line, n) ==
  /\ e_pc = "frame"
  /\ LET distance == OrDefault(entry_read_distance(e_arduino, line)) IN
     IF InRange(distance)
     THEN /\ e_pc' = "regions"
          /\ e_left' = n
     ELSE /\ e_pc' = "frame"
          /\ e_left' = 0
  /\ UNCHANGED <<clock, svars, payvars, dbvars, e_arduino, e_buffer, last_saved_plate,
                 last_entry_time, e_common, e_now, e_serial, e_last,
                 e_junk, xvars>>

\* One region of the frame: OCR, the format test, plate_buffer.append.
EntryRegion(text) ==
  /\ e_pc = "regions"
  /\ e_left > 0
  /\ e_buffer' = ObserveText(e_buffer, text)
  /\ e_left' = e_left - 1
  /\ e_junk' = NotAPlate(text)
  /\ UNCHANGED <<clock, svars, payvars, dbvars, e_arduino, e_pc, last_saved_plate,
                 last_entry_time, e_common, e_now, e_serial, e_last,
                 xvars>>

\* The cooldown test with the boundary second counted as elapsed.
EntryCooldownOver_inclusive(common, now) ==
  common # last_saved_plate \/ now - last_entry_time >= ENTRY_COOLDOWN

\* The cooldown test without its comparison of the plates.
EntryCooldownOver_time_only(common, now) ==
  now - last_entry_time > ENTRY_COOLDOWN

\* The cooldown test of the entry lane.
EntryCooldownOver(common, now) ==
  common # last_saved_plate \/ now - last_entry_time > ENTRY_COOLDOWN

\* What a decision leaves behind for the properties: the trusted plate, the
\* time, whether an unpaid row existed and whether the cooldown allowed an
\* admission, the rows inserted and the gate-open bytes written by it.
EntryObserved(common, now, log2, serial2) ==
  [plate |-> common, now |-> now,
   unpaid |-> \E i \in 1..Len(vehicle_log) :
                 /\ vehicle_log[i].car_plate = common
                 /\ vehicle_log[i].payment_status = "0",
   cooled |-> common # last_saved_plate
                \/ now - last_entry_time > ENTRY_COOLDOWN,
   inserted |-> Len(log2) - Len(vehicle_log),
   opened |-> CountByte(serial2, "1") - CountByte(e_serial, "1")]

NoDecision ==
  [plate |-> NoPlate, now |-> 0, unpaid |-> FALSE, cooled |-> FALSE,
   inserted |-> 0, opened |-> 0]

\* After the region loop: if len(plate_buffer) >= CAPTURE_THRESHOLD, decide.
EntryCheck ==
  /\ e_pc = "regions"
  /\ e_left = 0
  /\ UNCHANGED <<clock, svars, payvars, unauthorized_exit_alerts, e_arduino, e_left, xvars>>
  /\ e_junk' = FALSE
  /\ Len(e_buffer) >= CAPTURE_THRESHOLD => Len(vehicle_log) < MaxRows
  /\ IF Len(e_buffer) >= CAPTURE_THRESHOLD
     THEN LET common == MostCommon(e_buffer)
              now == clock
              admit == /\ ~has_unpaid_record(vehicle_log, common)
                       /\ EntryCooldownOver(common, now)
              log2 == IF admit THEN insert_vehicle_log(vehicle_log, common, now)
                      ELSE vehicle_log
              serial2 == IF admit /\ e_arduino THEN Append(e_serial, "1")
                         ELSE e_serial
          IN /\ vehicle_log' = log2
             /\ e_serial' = serial2
             /\ e_last' = EntryObserved(common, now, log2, serial2)
             /\ IF admit /\ e_arduino
                THEN \* time.sleep(GATE_OPEN_TIME) with the gate open
                     /\ e_pc' = "hold"
                     /\ e_common' = common
                     /\ e_now' = now
                     /\ UNCHANGED <<e_buffer, last_saved_plate, last_entry_time>>
                ELSE /\ e_pc' = "frame"
                     /\ e_buffer' = <<>>
                     /\ last_saved_plate' = IF admit THEN common
                                            ELSE last_saved_plate
                     /\ last_entry_time' = IF admit THEN now
                                           ELSE last_entry_time
                     /\ UNCHANGED <<e_common, e_now>>
     ELSE /\ e_pc' = "frame"
          /\ UNCHANGED <<vehicle_log, e_buffer, last_saved_plate,
                         last_entry_time, e_common, e_now, e_serial, e_last>>

\* The end of the sleep without the write of '0'.
EntryGateClose_silent ==
  /\ e_pc = "hold"
  /\ clock >= e_now + GATE_OPEN_TIME
  /\ e_serial' = e_serial
  /\ last_saved_plate' = e_common
  /\ last_entry_time' = e_now
  /\ e_buffer' = <<>>
  /\ e_pc' = "frame"
  /\ e_common' = NoPlate
  /\ e_now' = 0
  /\ UNCHANGED <<clock, svars, payvars, dbvars, e_arduino, e_left, e_last, e_junk,
                 xvars>>

\* The sleep is over: close the gate, remember the plate, clear the buffer.
EntryGateClose ==
  /\ e_pc = "hold"
  /\ clock >= e_now + GATE_OPEN_TIME
  /\ e_serial' = Append(e_serial, "0")
  /\ last_saved_plate' = e_common
  /\ last_entry_time' = e_now
  /\ e_buffer' = <<>>
  /\ e_pc' = "frame"
  /\ e_common' = NoPlate
  /\ e_now' = 0
  /\ UNCHANGED <<clock, svars, payvars, dbvars, e_arduino, e_left, e_last, e_junk,
                 xvars>>

\* ------------------------------------------------------------- exit lane
\* car_exit.read_distance: only a line "DIST:<number>" gives a reading.
exit_read_distance(arduino, line) ==
  IF ~arduino \/ ~line.waiting THEN NoReading
  ELSE IF line.prefix /\ line.numeric THEN line.val
  ELSE NoReading

\* The lookup without its payment_status test: the newest row of the plate.
get_unpaid_record_any_status(log, plate) ==
  {i \in 1..Len(log) :
     /\ log[i].car_plate = plate
     /\ \A j \in 1..Len(log) :
          log[j].car_plate = plate => log[j].entry_time <= log[i].entry_time}

\* get_unpaid_record: the rows ORDER BY entry_time DESC LIMIT 1 may return
\* (rows of equal entry_time come in an order SQLite does not fix).
get_unpaid_record(log, plate) ==
  {i \in UnpaidRows(log, plate) :
     \A j \in UnpaidRows(log, plate) : log[j].entry_time <= log[i].entry_time}

\* A DELETE of the row in place of the UPDATE.
update_exit_log_delete(log, record_id, now) ==
  SubSeq(log, 1, record_id - 1) \o SubSeq(log, record_id + 1, Len(log))

\* The update that stamps exit_time and forgets payment_status.
update_exit_log_time_only(log, record_id, now) ==
  [log EXCEPT ![record_id] = [@ EXCEPT !.exit_time = now]]

\* update_exit_log: exit_time = now, payment_status = '1' on the row.
update_exit_log(log, record_id, now) ==
  [log EXCEPT ![record_id] =
     [@ EXCEPT !.exit_time = now, !.payment_status = "1"]]

\* log_unauthorized_exit: one more row in unauthorized_exit_alerts.
log_unauthorized_exit(alerts, plate, due_payment, alert_type, now) ==
  Append(alerts, AlertRow(plate, now, due_payment, alert_type))

\* The cooldown tests of the exit lane.
ExitCooldownOver(common, now) ==
  common # last_processed_plate \/ now - last_exit_time > EXIT_COOLDOWN

\* The alert cooldown test that never holds an alert back.
AlertCooldownOver_always(now) == now >= last_alert_time

AlertCooldownOver(now) == now - last_alert_time > ALERT_COOLDOWN

\* The finally block of main: stop byte, then the port is closed.
ExitFinally(serial) == IF x_arduino THEN Append(serial, "S") ELSE serial

ExitFrame(line, n) ==
  /\ x_pc = "frame"
  /\ LET distance == OrDefault(exit_read_distance(x_arduino, line)) IN
     IF InRange(distance)
     THEN /\ x_pc' = IF n > 0 THEN "regions" ELSE "frame"
          /\ x_left' = n
     ELSE /\ x_pc' = "frame"
          /\ x_left' = 0
  /\ x_outcome' = "none"
  /\ UNCHANGED <<clock, svars, payvars, dbvars, evars, x_arduino, x_buffer,
                 last_processed_plate, last_exit_time, last_alert_time,
                 x_common, x_now, x_serial, x_threads, x_junk>>

\* One region of the frame: OCR, the format test, plate_buffer.append.
ExitRegion(text) ==
  /\ x_pc = "regions"
  /\ x_left > 0
  /\ x_buffer' = ObserveText(x_buffer, text)
  /\ x_left' = x_left - 1
  /\ x_pc' = "check"
  /\ x_junk' = NotAPlate(text)
  /\ UNCHANGED <<clock, svars, payvars, dbvars, evars, x_arduino, last_processed_plate,
                 last_exit_time, last_alert_time, x_common, x_now, x_serial,
                 x_threads, x_outcome>>

\* The unpaid rows of a plate no other unpaid row of the plate is newer than.
NewestUnpaid(plate) ==
  {i \in 1..Len(vehicle_log) :
     /\ vehicle_log[i].car_plate = plate
     /\ vehicle_log[i].payment_status = "0"
     /\ \A j \in 1..Len(vehicle_log) :
          (vehicle_log[j].car_plate = plate /\ vehicle_log[j].payment_status = "0")
            => vehicle_log[j].entry_time <= vehicle_log[i].entry_time}

\* if len(plate_buffer) >= CAPTURE_THRESHOLD: the exit decision.
ExitCheck ==
  /\ x_pc = "check"
  /\ UNCHANGED <<clock, svars, payvars, evars, x_arduino, x_left>>
  /\ x_junk' = FALSE
  /\ IF Len(x_buffer) >= CAPTURE_THRESHOLD
     THEN LET common == MostCommon(x_buffer)
              now == clock
              rows == IF ExitCooldownOver(common, now)
                      THEN get_unpaid_record(vehicle_log, common) ELSE {}
          IN
          IF rows = {}
          THEN \* suppressed by the cooldown, or no unpaid row: clear only
               /\ x_buffer' = <<>>
               /\ x_pc' = IF x_left > 0 THEN "regions" ELSE "frame"
               /\ x_outcome' = IF ExitCooldownOver(common, now)
                               THEN "skipped" ELSE "cooldown"
               /\ UNCHANGED <<dbvars, last_processed_plate, last_exit_time,
                              last_alert_time, x_common, x_now, x_serial,
                              x_threads>>
          ELSE \E record_id \in rows :
               LET row == vehicle_log[record_id]
                   due_payment == row.due_payment
               IN
               IF row.due_type # "real"
               THEN \* due_payment > 0 raises TypeError: except, finally
                    /\ x_pc' = "terminated"
                    /\ x_outcome' = "error"
                    /\ x_serial' = ExitFinally(x_serial)
                    /\ x_threads' = <<>>
                    /\ UNCHANGED <<dbvars, x_buffer, last_processed_plate,
                                   last_exit_time, last_alert_time, x_common,
                                   x_now>>
               ELSE IF due_payment > 0 /\ AlertCooldownOver(now)
               THEN \* deny: alert row, alarm worker, gate stays closed
                    LET alerts2 == log_unauthorized_exit(
                                     unauthorized_exit_alerts, common,
                                     due_payment, "PAYMENT_PENDING", now)
                        threads2 == Append(x_threads, [pc |-> "start", since |-> 0])
                    IN
                    /\ unauthorized_exit_alerts' = alerts2
                    /\ x_outcome' = "denied"
                    /\ x_threads' = threads2
                    /\ last_alert_time' = now
                    /\ last_processed_plate' = common
                    /\ last_exit_time' = now
                    /\ x_buffer' = <<>>
                    /\ x_pc' = IF x_left > 0 THEN "regions" ELSE "frame"
                    /\ UNCHANGED <<vehicle_log, x_common, x_now, x_serial>>
               ELSE \* settle: mark the row exited, then the gate sequence
                    LET log2 == update_exit_log(vehicle_log, record_id, now)
                        serial2 == IF x_arduino THEN Append(x_serial, "1")
                                   ELSE x_serial
                    IN
                    /\ vehicle_log' = log2
                    /\ x_outcome' = "settled"
                    /\ x_serial' = serial2
                    /\ UNCHANGED <<unauthorized_exit_alerts, last_alert_time,
                                   x_threads>>
                    /\ IF x_arduino
                       THEN \* time.sleep(GATE_OPEN_TIME) with the gate open
                            /\ x_pc' = "hold"
                            /\ x_common' = common
                            /\ x_now' = now
                            /\ UNCHANGED <<x_buffer, last_processed_plate,
                                           last_exit_time>>
                       ELSE /\ last_processed_plate' = common
                            /\ last_exit_time' = now
                            /\ x_buffer' = <<>>
                            /\ x_pc' = IF x_left > 0 THEN "regions" ELSE "frame"
                            /\ UNCHANGED <<x_common, x_now>>
     ELSE /\ x_pc' = IF x_left > 0 THEN "regions" ELSE "frame"
          /\ UNCHANGED <<dbvars, x_buffer, last_processed_plate, last_exit_time,
                         last_alert_time, x_common, x_now, x_serial, x_threads,
                         x_outcome>>

\* The sleep is over: close the gate, remember the plate, clear the buffer.
ExitGateClose ==
  /\ x_pc = "hold"
  /\ clock >= x_now + GATE_OPEN_TIME
  /\ x_serial' = Append(x_serial, "0")
  /\ last_processed_plate' = x_common
  /\ last_exit_time' = x_now
  /\ x_buffer' = <<>>
  /\ x_pc' = IF x_left > 0 THEN "regions" ELSE "frame"
  /\ x_common' = NoPlate
  /\ x_now' = 0
  /\ UNCHANGED <<clock, svars, payvars, dbvars, evars, x_arduino, x_left, last_alert_time,
                 x_threads, x_junk, x_outcome>>

\* An element taken out of a sequence.
RemoveAt(seq, k) == SubSeq(seq, 1, k - 1) \o SubSeq(seq, k + 1, Len(seq))

\* trigger_alert on a worker thread: without a controller the alert is only
\* simulated; with one, '2' is written and the worker sleeps.
AlarmOn(k) ==
  /\ k \in 1..Len(x_threads)
  /\ x_threads[k].pc = "start"
  /\ x_pc # "terminated"
  /\ IF x_arduino
     THEN /\ x_serial' = Append(x_serial, "2")
          /\ x_threads' = [x_threads EXCEPT ![k] = [pc |-> "on", since |-> clock]]
     ELSE /\ x_threads' = RemoveAt(x_threads, k)
          /\ UNCHANGED x_serial
  /\ UNCHANGED <<clock, svars, payvars, dbvars, evars, x_arduino, x_pc, x_left, x_buffer,
                 last_processed_plate, last_exit_time, last_alert_time,
                 x_common, x_now, x_junk, x_outcome>>

\* time.sleep(duration) is over: the stop byte.
AlarmOff(k) ==
  /\ k \in 1..Len(x_threads)
  /\ x_threads[k].pc = "on"
  /\ x_pc # "terminated"
  /\ clock >= x_threads[k].since + ALARM_DURATION
  /\ x_serial' = Append(x_serial, "S")
  /\ x_threads' = RemoveAt(x_threads, k)
  /\ UNCHANGED <<clock, svars, payvars, dbvars, evars, x_arduino, x_pc, x_left, x_buffer,
                 last_processed_plate, last_exit_time, last_alert_time,
                 x_common, x_now, x_junk, x_outcome>>

\* ----------------------------------------------------------------- clock
Tick ==
  /\ \E d \in TickSteps :
       /\ clock + d <= MaxClock
       /\ clock' = clock + d
  /\ UNCHANGED <<dbvars, evars, xvars, payvars, svars>>

\* -------------------------------------------------------- operator tools
\* payment_success.mark_payment_success: every unpaid row of the plate
\* becomes paid.
mark_payment_success(log, plate) ==
  [i \in 1..Len(log) |->
     IF log[i].car_plate = plate /\ log[i].payment_status = "0"
     THEN [log[i] EXCEPT !.payment_status = "1"]
     ELSE log[i]]

MarkPaymentSuccess(plate) ==
  /\ has_unpaid_record(vehicle_log, plate)
  /\ vehicle_log' = mark_payment_success(vehicle_log, plate)
  /\ UNCHANGED <<clock, svars, payvars, unauthorized_exit_alerts, evars, xvars>>

\* ------------------------------------------------------ payment terminal
\* Lines of the terminal, as strings of characters.
READY == <<"R", "E", "A", "D", "Y">>
DONE == <<"D", "O", "N", "E">>
Responses ==
  { READY, DONE, <<"U", "N">> \o DONE, <<"E", "R", "R">>, <<>> }

\* sub in s
Contains(s, sub) ==
  \E i \in 0..(Len(s) - Len(sub)) : SubSeq(s, i + 1, i + Len(sub)) = sub

DecimalDigits == <<"0", "1", "2", "3", "4", "5", "6", "7", "8", "9">>
IsDecimal(c) == \E i \in 1..Len(DecimalDigits) : DecimalDigits[i] = c
DigitValue(c) == (CHOOSE i \in 1..Len(DecimalDigits) : DecimalDigits[i] = c) - 1

\* int(s) of a string of decimal digits
RECURSIVE ToInt(_)
ToInt(ds) ==
  IF ds = <<>> THEN 0
  ELSE 10 * ToInt(SubSeq(ds, 1, Len(ds) - 1)) + DigitValue(ds[Len(ds)])

\* A command written to the terminal.
Command(cmd, arg) == [cmd |-> cmd, arg |-> arg]

\* ------------------------------- payment handshake on the SQLite ledger
NoBalance == -1

\* Messages of the terminal, already cut at the commas (line.split(',')).
PayLines ==
  { <<RAB123A, <<"1", "5">>>>,
    <<RAB123A, <<"5">>>>,
    <<RAC456B, <<"1", "0">>>>,
    <<RAC456B, <<"1", ".", "5">>>>,
    <<RAB123A, <<>>>>,
    <<RAB123A>>,
    <<NoPlate, <<"1", "5">>>>,
    <<RAB123A, <<"2", "0">>, <<"0">>>>,
    <<READY>>,
    <<DONE>> }

\* The parser without its test on the number of parts.
parse_arduino_data_any_parts(parts) ==
  IF Len(parts) < 2
  THEN [plate |-> NoPlate, balance |-> NoBalance]
  ELSE LET balance_str == SelectSeq(parts[2], IsDecimal) IN
       IF balance_str # <<>>
       THEN [plate |-> parts[1], balance |-> ToInt(balance_str)]
       ELSE [plate |-> NoPlate, balance |-> NoBalance]

\* parse_arduino_data: two parts, the balance read from the digits of the
\* second; (None, None) otherwise.
parse_arduino_data(parts) ==
  IF Len(parts) # 2
  THEN [plate |-> NoPlate, balance |-> NoBalance]
  ELSE LET balance_str == SelectSeq(parts[2], IsDecimal) IN
       IF balance_str # <<>>
       THEN [plate |-> parts[1], balance |-> ToInt(balance_str)]
       ELSE [plate |-> NoPlate, balance |-> NoBalance]

\* records[0] of SELECT ... payment_status = '0' ORDER BY entry_time ASC
\* (rows of equal entry_time come in an order SQLite does not fix).
first_unpaid_record(log, plate) ==
  {i \in UnpaidRows(log, plate) :
     \A j \in UnpaidRows(log, plate) : log[i].entry_time <= log[j].entry_time}

\* int(total_seconds / 60) + 1
minutes_spent(entry_time, exit_time) == (exit_time - entry_time) \div 60 + 1

\* The columns of vehicle_log, by the CREATE TABLE that made the table:
\* initialize_db.py, car_exit.py, process_payment.py.
VehicleLogSchemas ==
  { {"no", "car_plate", "entry_time", "exit_time", "payment_status",
     "due_payment", "is_exited"},
    {"no", "car_plate", "entry_time", "exit_time", "payment_status",
     "due_payment"},
    {"no", "entry_time", "exit_time", "car_plate", "due_payment",
     "payment_status"} }

\* The columns the UPDATE of process_payment sets.
UpdateColumns == {"exit_time", "amount_due", "payment_status"}

\* The UPDATE on a table that has every column it names.
payment_update_any_table(log, columns, rowid, exit_time, amount_due) ==
  [log EXCEPT ![rowid] =
     [@ EXCEPT !.exit_time = exit_time, !.payment_status = "1"]]

\* The UPDATE and commit of process_payment on a table with these columns:
\* a column the table lacks raises, nothing is committed.
payment_update(log, columns, rowid, exit_time, amount_due) ==
  IF UpdateColumns \subseteq columns
  THEN [log EXCEPT ![rowid] =
          [@ EXCEPT !.exit_time = exit_time, !.payment_status = "1"]]
  ELSE log

\* main: a line is read, parsed and, when valid, handed to process_payment
\* up to the wait for READY.
PayMessage(line) ==
  /\ p_pc = "listen"
  /\ p_confirm' = <<>>
  /\ LET parsed == parse_arduino_data(line) IN
     IF /\ parsed.plate # NoPlate
        /\ parsed.balance # NoBalance
        /\ first_unpaid_record(vehicle_log, parsed.plate) # {}
     THEN \E rowid \in first_unpaid_record(vehicle_log, parsed.plate) :
            LET amount_due ==
                  minutes_spent(vehicle_log[rowid].entry_time, clock)
                    * RATE_PER_MINUTE
            IN /\ p_rowid' = rowid
               /\ p_exit_time' = clock
               /\ p_amount_due' = amount_due
               /\ IF parsed.balance < amount_due
                  THEN /\ p_serial' = <<Command("I", 0)>>
                       /\ p_new_balance' = NoBalance
                       /\ p_start_time' = NoTime
                       /\ p_pc' = "listen"
                  ELSE /\ p_serial' = <<>>
                       /\ p_new_balance' = parsed.balance - amount_due
                       /\ p_start_time' = clock
                       /\ p_pc' = "wait_ready"
     ELSE /\ p_rowid' = NoRow
          /\ p_exit_time' = NoTime
          /\ p_amount_due' = 0
          /\ p_new_balance' = NoBalance
          /\ p_start_time' = NoTime
          /\ p_serial' = <<>>
          /\ p_pc' = "listen"
  /\ UNCHANGED <<clock, svars, dbvars, evars, xvars, cvars>>

\* A line read while waiting for READY.
PayReadyLine(response) ==
  /\ p_pc = "wait_ready"
  /\ IF response = READY
     THEN /\ p_serial' = Append(p_serial, Command("BALANCE", p_new_balance))
          /\ p_start_time' = clock
          /\ p_pc' = "wait_done"
     ELSE UNCHANGED <<p_serial, p_start_time, p_pc>>
  /\ UNCHANGED <<clock, svars, dbvars, evars, xvars, cvars, p_rowid, p_exit_time,
                 p_amount_due, p_new_balance, p_confirm>>

\* if time.time() - start_time > 5: return
PayReadyTimeout ==
  /\ p_pc = "wait_ready"
  /\ clock - p_start_time > READY_TIMEOUT
  /\ p_pc' = "listen"
  /\ UNCHANGED <<clock, svars, dbvars, evars, xvars, cvars, p_rowid, p_exit_time,
                 p_amount_due, p_new_balance, p_start_time, p_serial,
                 p_confirm>>

\* A line read while waiting for the confirmation.
PayDoneLine(confirm) ==
  /\ p_pc = "wait_done"
  /\ p_confirm' = confirm
  /\ IF Contains(confirm, DONE)
     THEN /\ \E columns \in VehicleLogSchemas :
               vehicle_log' = payment_update(vehicle_log, columns, p_rowid,
                                             p_exit_time, p_amount_due)
          /\ p_pc' = "listen"
     ELSE UNCHANGED <<vehicle_log, p_pc>>
  /\ UNCHANGED <<clock, svars, unauthorized_exit_alerts, evars, xvars, cvars,
                 p_rowid, p_exit_time, p_amount_due, p_new_balance,
                 p_start_time, p_serial>>

\* if time.time() - start_time > 10: break
PayDoneTimeout ==
  /\ p_pc = "wait_done"
  /\ clock - p_start_time > DONE_TIMEOUT
  /\ p_pc' = "listen"
  /\ UNCHANGED <<clock, svars, dbvars, evars, xvars, cvars, p_rowid, p_exit_time,
                 p_amount_due, p_new_balance, p_start_time, p_serial,
                 p_confirm>>

\* ---------------------------------- payment handshake on the CSV ledger
SERIAL_TIMEOUT == 2
NoAmount == -1

\* A row of plates_log.csv; Duration (hr) in hundredths of an hour.
PlateRow(plate, timestamp, status, exit, hundredths, amount) ==
  [Plate_Number |-> plate, Timestamp |-> timestamp,
   Payment_Status |-> status, Exit_Time |-> exit,
   Duration_hr |-> hundredths, Amount |-> amount]

\* Messages of the terminal, already cut at the bars (message.split("|")):
\* of each part the key it holds and the text after the key.
Part(key, text) == [key |-> key, text |-> text]
CsvMessages ==
  { <<Part("PLATE:", RAB123A), Part("BALANCE:", <<"1", "0">>)>>,
    <<Part("PLATE:", RAB123A), Part("BALANCE:", <<"2">>)>>,
    <<Part("PLATE:", RAC456B), Part("BALANCE:", <<"1", "0">>)>>,
    <<Part("PLATE:", RAC456B), Part("BALANCE:", <<"1", ".", "5">>)>>,
    <<Part("BALANCE:", <<"1", "0">>), Part("PLATE:", RAB123A)>>,
    <<Part("PLATE:", RAB123A)>>,
    <<Part("PLATE:", RAB123A), Part("BALANCE:", <<>>)>> }

\* int(text) succeeds
IsNumber(text) ==
  text # <<>> /\ \A i \in 1..Len(text) : IsDecimal(text[i])

\* process_message up to the lookup: the message holds both keys, the
\* first part the plate, the second a number.
process_message(message) ==
  IF /\ \E i \in 1..Len(message) : message[i].key = "PLATE:"
     /\ \E i \in 1..Len(message) : message[i].key = "BALANCE:"
     /\ message[1].key = "PLATE:"
     /\ Len(message) >= 2
     /\ message[2].key = "BALANCE:"
     /\ IsNumber(message[2].text)
  THEN [plate |-> message[1].text, balance |-> ToInt(message[2].text)]
  ELSE [plate |-> NoPlate, balance |-> NoBalance]

\* lookup_unpaid_entry: the first row of the file for the plate with
\* Payment Status '0'; NoRow when there is none.
lookup_unpaid_entry(log, plate) ==
  IF \E i \in 1..Len(log) :
       log[i].Plate_Number = plate /\ log[i].Payment_Status = "0"
  THEN CHOOSE i \in 1..Len(log) :
         /\ log[i].Plate_Number = plate /\ log[i].Payment_Status = "0"
         /\ \A j \in 1..(i - 1) :
              ~(log[j].Plate_Number = plate /\ log[j].Payment_Status = "0")
  ELSE NoRow

\* The durations of exactly half a hundredth of an hour that
\* round(seconds / 3600, 2) rounds up in binary floating point (those below
\* 700 s); the other halves round down.
HalfRoundsUp == {18, 90, 126, 198, 234, 306, 342, 414, 486, 594}

\* round(duration.total_seconds() / 3600, 2), in hundredths of an hour
duration_hundredths(seconds) ==
  IF seconds % 36 = 18
  THEN IF seconds \in HalfRoundsUp THEN seconds \div 36 + 1 ELSE seconds \div 36
  ELSE (seconds + 18) \div 36

\* round(duration_hours * PRICE_PER_HOUR)
amount_for(hundredths) == (hundredths * PRICE_PER_HOUR + 50) \div 100

\* update_plate_log: every unpaid row of the plate gets the exit time, the
\* duration, the amount and Payment Status '1'.
update_plate_log(log, plate, exit_time, hundredths, amount) ==
  [i \in 1..Len(log) |->
     IF log[i].Plate_Number = plate /\ log[i].Payment_Status = "0"
     THEN [log[i] EXCEPT !.Exit_Time = exit_time, !.Duration_hr = hundredths,
                         !.Amount = amount, !.Payment_Status = "1"]
     ELSE log[i]]

\* Any line at all taken for the confirmation.
CsvConfirmed_any_line(response) == response # <<>>

\* response == "DONE"
CsvConfirmed(response) == response = DONE

\* listen_to_arduino: a line is read and handed to process_message, up to
\* the readline after PAY.
CsvMessage(message) ==
  /\ c_pc = "listen"
  /\ LET parsed == process_message(message)
         row == lookup_unpaid_entry(plates_log, parsed.plate)
     IN
     IF parsed.plate # NoPlate /\ parsed.balance # NoBalance /\ row # NoRow
     THEN LET hundredths ==
                duration_hundredths(clock - plates_log[row].Timestamp)
              amount_due == amount_for(hundredths)
          IN /\ c_plate' = plates_log[row].Plate_Number
             /\ c_now' = clock
             /\ c_hundredths' = hundredths
             /\ c_amount_due' = amount_due
             /\ c_response' = <<>>
             /\ IF parsed.balance < amount_due
                THEN /\ c_serial' = <<>>
                     /\ c_start_time' = NoTime
                     /\ c_pc' = "listen"
                ELSE /\ c_serial' = <<Command("PAY", amount_due)>>
                     /\ c_start_time' = clock
                     /\ c_pc' = "wait_done"
     ELSE /\ c_plate' = NoPlate
          /\ c_now' = NoTime
          /\ c_hundredths' = 0
          /\ c_amount_due' = 0
          /\ c_response' = <<>>
          /\ c_serial' = <<>>
          /\ c_start_time' = NoTime
          /\ c_pc' = "listen"
  /\ UNCHANGED <<clock, svars, dbvars, evars, xvars, pvars, plates_log>>

\* response = ser.readline(): a line that came before the read timed out.
CsvResponse(response) ==
  /\ c_pc = "wait_done"
  /\ clock - c_start_time <= SERIAL_TIMEOUT
  /\ c_response' = response
  /\ plates_log' = IF CsvConfirmed(response)
                   THEN update_plate_log(plates_log, c_plate, c_now,
                                         c_hundredths, c_amount_due)
                   ELSE plates_log
  /\ c_pc' = "listen"
  /\ UNCHANGED <<clock, svars, dbvars, evars, xvars, pvars, c_plate, c_now,
                 c_hundredths, c_amount_due, c_start_time, c_serial>>

\* response = ser.readline(): the read timed out, the response is empty.
CsvTimeout ==
  /\ c_pc = "wait_done"
  /\ clock - c_start_time >= SERIAL_TIMEOUT
  /\ c_response' = <<>>
  /\ c_pc' = "listen"
  /\ UNCHANGED <<clock, svars, dbvars, evars, xvars, pvars, plates_log, c_plate,
                 c_now, c_hundredths, c_amount_due, c_start_time, c_serial>>

\* Time passes during a handshake.
PayTickSteps == {5}
MaxPayElapsed == 30
PayTick ==
  /\ \E d \in PayTickSteps :
       /\ clock + d <= Epoch + MaxPayElapsed
       /\ clock' = clock + d
  /\ UNCHANGED <<dbvars, evars, xvars, payvars, svars>>

\* No payment handshake runs.
PayOff ==
  /\ p_pc = "off"
  /\ p_rowid = NoRow
  /\ p_exit_time = NoTime
  /\ p_amount_due = 0
  /\ p_new_balance = NoBalance
  /\ p_start_time = NoTime
  /\ p_serial = <<>>
  /\ p_confirm = <<>>

CsvOff ==
  /\ c_pc = "off"
  /\ plates_log = <<>>
  /\ c_plate = NoPlate
  /\ c_now = NoTime
  /\ c_hundredths = 0
  /\ c_amount_due = 0
  /\ c_start_time = NoTime
  /\ c_serial = <<>>
  /\ c_response = <<>>

\* --------------------------------------------------------- specifications
EntryInit ==
  /\ e_arduino \in BOOLEAN
  /\ e_pc = "frame"
  /\ e_left = 0
  /\ e_buffer = <<>>
  /\ last_saved_plate = NoPlate
  /\ last_entry_time = 0
  /\ e_common = NoPlate
  /\ e_now = 0
  /\ e_serial = <<>>
  /\ e_last = NoDecision
  /\ e_junk = FALSE

ExitInit ==
  /\ x_arduino \in BOOLEAN
  /\ x_pc = "frame"
  /\ x_left = 0
  /\ x_buffer = <<>>
  /\ last_processed_plate = NoPlate
  /\ last_exit_time = 0
  /\ last_alert_time = 0
  /\ x_common = NoPlate
  /\ x_now = 0
  /\ x_serial = <<>>
  /\ x_threads = <<>>
  /\ x_junk = FALSE
  /\ x_outcome = "none"

\* The operator API has answered no request yet.
NoCount == -1
NoResponse ==
  [route |-> "", status |-> 0, body |-> <<>>, total_vehicles |-> NoCount,
   unpaid_vehicles |-> NoCount, active_alerts |-> NoCount]
ServerOff == s_response = NoResponse

\* A lane that has not been started.
EntryOff ==
  /\ e_arduino = FALSE
  /\ e_pc = "off"
  /\ e_left = 0
  /\ e_buffer = <<>>
  /\ last_saved_plate = NoPlate
  /\ last_entry_time = 0
  /\ e_common = NoPlate
  /\ e_now = 0
  /\ e_serial = <<>>
  /\ e_last = NoDecision
  /\ e_junk = FALSE

ExitOff ==
  /\ x_arduino = FALSE
  /\ x_pc = "off"
  /\ x_left = 0
  /\ x_buffer = <<>>
  /\ last_processed_plate = NoPlate
  /\ last_exit_time = 0
  /\ last_alert_time = 0
  /\ x_common = NoPlate
  /\ x_now = 0
  /\ x_serial = <<>>
  /\ x_threads = <<>>
  /\ x_junk = FALSE
  /\ x_outcome = "none"

\* Rows the ledger may hold when the processes start: debtors, a settled
\* session, a zero-fee session and a row as the entry lane writes it.
InitRows ==
  { VehicleRow(RAB123A, Epoch - 120, NoTime, "0", "real", 1200),
    VehicleRow(RAB123A, Epoch - 60, NoTime, "0", "real", 0),
    VehicleRow(RAC456B, Epoch - 61, NoTime, "0", "real", 1200),
    VehicleRow(RAC456B, Epoch - 60, Epoch - 30, "1", "real", 15),
    VehicleRow(RAC456B, Epoch - 30, NoTime, "0", "text", 0) }
MaxInitRows == 2
\* Rows are appended as vehicles come in: distinct rows, in the order of
\* their entry times.
InitLedgers ==
  {log \in UNION {[1..n -> InitRows] : n \in 0..MaxInitRows} :
     \A i, j \in 1..Len(log) :
       i < j => log[i] # log[j] /\ log[i].entry_time <= log[j].entry_time}

InitEntry ==
  /\ clock = Epoch
  /\ ServerOff
  /\ PayOff
  /\ CsvOff
  /\ vehicle_log = <<>>
  /\ unauthorized_exit_alerts = <<>>
  /\ EntryInit
  /\ ExitOff

NextEntry ==
  \/ \E line \in SensorLines, n \in 0..MaxRegions : EntryFrame(line, n)
  \/ \E text \in OcrTexts : EntryRegion(text)
  \/ EntryCheck
  \/ EntryGateClose
  \/ \E plate \in Plates : MarkPaymentSuccess(plate)
  \/ Tick

SpecEntry == InitEntry /\ [][NextEntry]_vars

InitExit ==
  /\ clock = Epoch
  /\ ServerOff
  /\ PayOff
  /\ CsvOff
  /\ vehicle_log \in InitLedgers
  /\ unauthorized_exit_alerts = <<>>
  /\ EntryOff
  /\ ExitInit

NextExit ==
  \/ \E line \in SensorLines, n \in 0..MaxRegions : ExitFrame(line, n)
  \/ \E text \in OcrTexts : ExitRegion(text)
  \/ ExitCheck
  \/ ExitGateClose
  \/ \E k \in 1..MaxAlarms : AlarmOn(k)
  \/ \E k \in 1..MaxAlarms : AlarmOff(k)
  \/ Tick

SpecExit == InitExit /\ [][NextExit]_vars

\* Either lane, started alone against the ledger.
InitLanes == InitEntry \/ InitExit
NextLanes ==
  \/ e_pc # "off" /\ NextEntry
  \/ x_pc # "off" /\ NextExit
SpecLanes == InitLanes /\ [][NextLanes]_vars

\* ------------------------------------------------ payment specifications
LanesOff ==
  /\ unauthorized_exit_alerts = <<>>
  /\ EntryOff
  /\ ExitOff

\* Rows plates_log.csv may hold when the handshake starts.
InitPlateRows ==
  { PlateRow(RAB123A, Epoch - 90, "0", NoTime, 0, NoAmount),
    PlateRow(RAB123A, Epoch - 60, "0", NoTime, 0, NoAmount),
    PlateRow(RAC456B, Epoch - 54, "0", NoTime, 0, NoAmount),
    PlateRow(RAC456B, Epoch - 120, "1", Epoch - 60, 2, 4) }
InitPlateLogs ==
  UNION {[1..n -> InitPlateRows] : n \in 0..MaxInitRows}

InitPaySql ==
  /\ clock = Epoch
  /\ ServerOff
  /\ vehicle_log \in InitLedgers
  /\ LanesOff
  /\ CsvOff
  /\ p_pc = "listen"
  /\ p_rowid = NoRow
  /\ p_exit_time = NoTime
  /\ p_amount_due = 0
  /\ p_new_balance = NoBalance
  /\ p_start_time = NoTime
  /\ p_serial = <<>>
  /\ p_confirm = <<>>

InitPayCsv ==
  /\ clock = Epoch
  /\ ServerOff
  /\ vehicle_log = <<>>
  /\ LanesOff
  /\ PayOff
  /\ c_pc = "listen"
  /\ plates_log \in InitPlateLogs
  /\ c_plate = NoPlate
  /\ c_now = NoTime
  /\ c_hundredths = 0
  /\ c_amount_due = 0
  /\ c_start_time = NoTime
  /\ c_serial = <<>>
  /\ c_response = <<>>

NextPaySql ==
  \/ \E line \in PayLines : PayMessage(line)
  \/ \E response \in Responses : PayReadyLine(response)
  \/ PayReadyTimeout
  \/ \E confirm \in Responses : PayDoneLine(confirm)
  \/ PayDoneTimeout
  \/ PayTick

NextPayCsv ==
  \/ \E message \in CsvMessages : CsvMessage(message)
  \/ \E response \in Responses : CsvResponse(response)
  \/ CsvTimeout
  \/ PayTick

\* The handshake on the SQLite ledger.
SpecPaySql == InitPaySql /\ [][NextPaySql]_vars

\* Either handshake, started alone against its ledger.
InitPay == InitPaySql \/ InitPayCsv
NextPay == NextPaySql \/ NextPayCsv
SpecPay == InitPay /\ [][NextPay]_vars

\* ================================================================ claims
\* A step in which a lane takes a consensus decision.
EntryDecision == EntryCheck /\ Len(e_buffer) >= CAPTURE_THRESHOLD
ExitDecision == ExitCheck /\ Len(x_buffer) >= CAPTURE_THRESHOLD

\* The value that occurs most often in a window of candidates, the one seen
\* first among the most frequent ones.
Plurality(window) ==
  CHOOSE v \in {window[i] : i \in 1..Len(window)} :
    \A w \in {window[i] : i \in 1..Len(window)} :
      \/ w = v
      \/ CountOf(window, w) < CountOf(window, v)
      \/ /\ CountOf(window, w) = CountOf(window, v)
         /\ FirstIndex(window, v) < FirstIndex(window, w)

\* The newest unpaid row(s) of the plate carry a number above zero / a
\* number not above zero.
OwesAtExit(plate) ==
  /\ NewestUnpaid(plate) # {}
  /\ \A i \in NewestUnpaid(plate) :
       vehicle_log[i].due_type = "real" /\ vehicle_log[i].due_payment > 0

NothingDueAtExit(plate) ==
  /\ NewestUnpaid(plate) # {}
  /\ \A i \in NewestUnpaid(plate) :
       vehicle_log[i].due_type = "real" /\ vehicle_log[i].due_payment <= 0

\* The exit cooldown does not hold a decision on the plate back.
ExitNotCooling(plate) ==
  plate # last_processed_plate \/ clock - last_exit_time > EXIT_COOLDOWN

\* C1: an exit decision on a plate whose newest unpaid row has
\* duePayment > 0 writes no gate-open byte and leaves the ledger rows as
\* they are, whatever the cooldown variables hold.
C1_ExitDeniesDebtor ==
  [][ (ExitDecision /\ OwesAtExit(Plurality(x_buffer)))
        => /\ CountByte(x_serial', "1") = CountByte(x_serial, "1")
           /\ vehicle_log' = vehicle_log ]_vars

\* C4: an entry decision on a plate that has an unpaid row inserts no row,
\* writes no gate byte and leaves last_saved_plate and last_entry_time.
C4_EntrySuppression ==
  [][ (EntryDecision
       /\ \E i \in 1..Len(vehicle_log) :
            /\ vehicle_log[i].car_plate = e_last'.plate
            /\ vehicle_log[i].payment_status = "0")
        => /\ vehicle_log' = vehicle_log
           /\ e_serial' = e_serial
           /\ last_saved_plate' = last_saved_plate
           /\ last_entry_time' = last_entry_time ]_vars

C4_Witness ==
  /\ e_last.plate # NoPlate
  /\ e_last.unpaid
  /\ e_last.cooled
  /\ e_pc = "frame"

\* The entry decision of this step and the one before it are for one
\* plate, the earlier one was taken with no unpaid row for it, and they are
\* no more than ENTRY_COOLDOWN apart.
TwoDecisionsInCooldown ==
  /\ EntryDecision
  /\ e_last.plate # NoPlate
  /\ e_last'.plate = e_last.plate
  /\ ~e_last.unpaid
  /\ e_last'.now - e_last.now <= ENTRY_COOLDOWN

\* C5 as stated: two such decisions insert exactly one row and write
\* exactly one gate-open byte in total.
C5_AsStated ==
  [][ TwoDecisionsInCooldown
        => /\ e_last.inserted + e_last'.inserted = 1
           /\ e_last.opened + e_last'.opened = 1 ]_vars

\* C5 amended: when the first of the two decisions is not itself held back
\* by the cooldown, the two insert exactly one row in total, and write
\* exactly one gate-open byte if the gate controller is connected, none
\* if it is not.
C5_EntryIdempotent ==
  [][ (TwoDecisionsInCooldown /\ e_last.cooled)
        => /\ e_last.inserted + e_last'.inserted = 1
           /\ e_last.opened + e_last'.opened = (IF e_arduino THEN 1 ELSE 0)
    ]_vars

\* The plate was admitted at last_entry_time (its row is in the ledger,
\* paid since, and the gate was opened), and the decision just taken on it,
\* within the cooldown, found no unpaid row and was held back by the
\* cooldown alone.
C5_Witness ==
  /\ e_arduino
  /\ e_pc = "frame"
  /\ e_last.plate # NoPlate
  /\ e_last.plate = last_saved_plate
  /\ e_last.now > last_entry_time
  /\ e_last.now - last_entry_time <= ENTRY_COOLDOWN
  /\ ~e_last.unpaid
  /\ ~e_last.cooled
  /\ e_last.inserted = 0
  /\ e_last.opened = 0
  /\ CountByte(e_serial, "1") = 1
  /\ \E i \in 1..Len(vehicle_log) :
       /\ vehicle_log[i].car_plate = e_last.plate
       /\ vehicle_log[i].entry_time = last_entry_time
       /\ vehicle_log[i].payment_status = "1"

\* C6, for the decisions the exit cooldown does not hold back and
\* whatever hardware is connected: an exit decision on a plate whose
\* newest unpaid row has duePayment > 0 adds exactly one PAYMENT_PENDING
\* alert row for it (due copied from the row, unresolved) and starts one
\* alarm sequence.
C6_ExitDenialAlerts ==
  [][ (ExitDecision /\ ExitNotCooling(Plurality(x_buffer))
       /\ OwesAtExit(Plurality(x_buffer)))
        => /\ \E i \in NewestUnpaid(Plurality(x_buffer)) :
                unauthorized_exit_alerts' =
                  Append(unauthorized_exit_alerts,
                         [car_plate |-> Plurality(x_buffer),
                          alert_time |-> clock,
                          due_payment |-> vehicle_log[i].due_payment,
                          alert_type |-> "PAYMENT_PENDING",
                          resolved |-> 0])
           /\ Len(x_threads') = Len(x_threads) + 1 ]_vars

\* The exit decision settles the newest unpaid row of the plate.
SettlesNewest(plate) ==
  \E i \in NewestUnpaid(plate) :
    vehicle_log' = [vehicle_log EXCEPT ![i] =
                      [@ EXCEPT !.exit_time = clock, !.payment_status = "1"]]

\* C7 as stated: an exit decision not held back by the exit cooldown, on a
\* plate whose newest unpaid row has duePayment <= 0, sets exit_time and
\* PAID on that row, writes '1' and then '0', and adds no alert row.
C7_AsStated ==
  [][ /\ (ExitDecision /\ ExitNotCooling(Plurality(x_buffer))
          /\ NothingDueAtExit(Plurality(x_buffer)))
        => /\ SettlesNewest(Plurality(x_buffer))
           /\ x_serial' = Append(x_serial, "1")
           /\ x_pc' = "hold"
           /\ unauthorized_exit_alerts' = unauthorized_exit_alerts
      /\ (x_pc = "hold" /\ x_pc' # "hold") => x_serial' = Append(x_serial, "0")
    ]_vars

\* C7 amended: the row is settled and no alert row is added in every case;
\* the gate bytes '1' and then '0' are written when the controller is
\* connected, and no byte is written when it is not.
C7_ExitSettlement ==
  [][ /\ (ExitDecision /\ ExitNotCooling(Plurality(x_buffer))
          /\ NothingDueAtExit(Plurality(x_buffer)))
        => /\ SettlesNewest(Plurality(x_buffer))
           /\ unauthorized_exit_alerts' = unauthorized_exit_alerts
           /\ IF x_arduino
              THEN x_serial' = Append(x_serial, "1") /\ x_pc' = "hold"
              ELSE x_serial' = x_serial /\ x_pc' # "hold"
      /\ (x_pc = "hold" /\ x_pc' # "hold") => x_serial' = Append(x_serial, "0")
    ]_vars

\* The gate is open for a row with nothing due that has just been settled.
C7_Witness ==
  /\ x_pc = "hold"
  /\ x_arduino
  /\ x_serial # <<>>
  /\ x_serial[Len(x_serial)] = "1"
  /\ \E i \in 1..Len(vehicle_log) :
       /\ vehicle_log[i].car_plate = x_common
       /\ vehicle_log[i].payment_status = "1"
       /\ vehicle_log[i].exit_time = x_now
       /\ vehicle_log[i].due_payment <= 0

\* C8: a lane decides on the value most frequent among the first
\* CAPTURE_THRESHOLD candidates fed to it since its buffer was empty (the
\* first seen of them on a tie), and its buffer is empty once the decision
\* has been carried out.
C8_ConsensusMajority ==
  [][ /\ EntryDecision
        => /\ e_last'.plate = Plurality(SubSeq(e_buffer, 1, CAPTURE_THRESHOLD))
           /\ e_pc' # "hold" => e_buffer' = <<>>
      /\ (e_pc = "hold" /\ e_pc' # "hold") => e_buffer' = <<>>
    ]_vars

\* The exit lane's part of C8, which its code keeps: the decision is taken
\* on exactly CAPTURE_THRESHOLD candidates and touches rows of their most
\* frequent value only.
ExitConsensusOnThreshold ==
  [][ ExitDecision
        => /\ Len(x_buffer) = CAPTURE_THRESHOLD
           /\ \A i \in 1..Len(vehicle_log) :
                vehicle_log'[i] # vehicle_log[i]
                  => vehicle_log[i].car_plate = Plurality(x_buffer)
           /\ \A i \in (Len(unauthorized_exit_alerts) + 1)
                         ..Len(unauthorized_exit_alerts') :
                unauthorized_exit_alerts'[i].car_plate = Plurality(x_buffer)
    ]_vars

\* C9: a region whose text is not a plate string leaves the plate buffer of
\* its lane as it was, and the buffers only ever hold 7-character plate
\* strings, so the values a majority is computed over are never such texts.
C9_FormatRejection ==
  /\ [][ /\ (e_junk' /\ \E text \in OcrTexts : EntryRegion(text))
             => e_buffer' = e_buffer
         /\ (x_junk' /\ \E text \in OcrTexts : ExitRegion(text))
             => x_buffer' = x_buffer ]_vars
  /\ [](\A i \in 1..Len(e_buffer) : Len(e_buffer[i]) = 7 /\ ~NotAPlate(e_buffer[i]))
  /\ [](\A i \in 1..Len(x_buffer) : Len(x_buffer[i]) = 7 /\ ~NotAPlate(x_buffer[i]))

\* A malformed text has just been read on a lane whose buffer holds
\* candidates.
C9_Witness ==
  \/ e_junk /\ Len(e_buffer) = CAPTURE_THRESHOLD - 1
  \/ x_junk /\ Len(x_buffer) = CAPTURE_THRESHOLD - 1

\* C2: the payment handshake changes a ledger row only in a step in which
\* it has read a line holding the completion token DONE while it waited for
\* the confirmation, and the steps that give up on a timeout (readiness or
\* completion) leave both ledgers exactly as they were.
C2_HandshakeAtomicity ==
  [][ /\ vehicle_log' # vehicle_log
        => p_pc = "wait_done" /\ Contains(p_confirm', DONE)
      /\ plates_log' # plates_log
        => c_pc = "wait_done" /\ Contains(c_response', DONE)
      /\ (PayReadyTimeout \/ PayDoneTimeout \/ CsvTimeout)
        => vehicle_log' = vehicle_log /\ plates_log' = plates_log
    ]_vars

\* A handshake has committed on the completion token.
C2_Witness ==
  /\ c_pc = "listen"
  /\ c_response = DONE
  /\ c_now # NoTime
  /\ \E i \in 1..Len(plates_log) :
       /\ plates_log[i].Plate_Number = c_plate
       /\ plates_log[i].Payment_Status = "1"
       /\ plates_log[i].Exit_Time = c_now

\* C3: when the balance suffices, READY has been read and the completion
\* token is read within its timeout, the selected row ends PAID, with
\* duePayment the computed amount due and exitTime the handshake's now.
C3_HandshakeCommit ==
  [][ (PayDoneLine(DONE) /\ clock - p_start_time <= DONE_TIMEOUT)
        => /\ vehicle_log'[p_rowid].payment_status = "1"
           /\ vehicle_log'[p_rowid].due_type = "real"
           /\ vehicle_log'[p_rowid].due_payment = p_amount_due
           /\ vehicle_log'[p_rowid].exit_time = p_exit_time ]_vars

\* s / 60 rounded up to a whole number of minutes
MinutesRoundedUp(s) == (s + 59) \div 60

\* C10: the amount due of the record selected for a message is the
\* seconds from its entry time to now, in minutes rounded up, times the
\* rate per minute (61 s bills 2 minutes, 60 s bills 1, 120 s bills 2).
C10_FeeRounding ==
  [][ \A line \in PayLines :
        (PayMessage(line) /\ p_rowid' # NoRow)
          => p_amount_due' =
               MinutesRoundedUp(clock - vehicle_log[p_rowid'].entry_time)
                 * RATE_PER_MINUTE ]_vars

\* A sensor line that gives no reading: no controller, nothing waiting, or
\* text that is not a number.
NoValidReading(arduino, line) == ~arduino \/ ~line.waiting \/ ~line.numeric

\* C12: a frame whose distance reading is missing or unparseable (no
\* controller, no serial data waiting, non-numeric text), or is a number
\* outside [MIN_DISTANCE, MAX_DISTANCE], is skipped on either lane: the
\* loop goes back to the next frame with no region to read, and buffer,
\* ledger and serial line stay as they were.
C12_MissingReadingSkips ==
  [][ \A line \in SensorLines : \A n \in 0..MaxRegions :
        /\ (EntryFrame(line, n)
              /\ (NoValidReading(e_arduino, line) \/ ~InRange(line.val)))
             => /\ e_pc' = "frame" /\ e_left' = 0
                /\ e_buffer' = e_buffer /\ e_serial' = e_serial
                /\ vehicle_log' = vehicle_log
        /\ (ExitFrame(line, n)
              /\ (NoValidReading(x_arduino, line) \/ ~InRange(line.val)))
             => /\ x_pc' = "frame" /\ x_left' = 0
                /\ x_buffer' = x_buffer /\ x_serial' = x_serial
                /\ vehicle_log' = vehicle_log
                /\ unauthorized_exit_alerts' = unauthorized_exit_alerts
    ]_vars

\* C13: a payment message whose balance is below the amount due of the
\* record it selects is answered with the insufficient-funds token and
\* nothing else: no balance or pay command is written, the handshake goes
\* back to listening and neither ledger changes.
C13_InsufficientFunds ==
  [][ /\ \A line \in PayLines :
           ( /\ PayMessage(line)
             /\ p_rowid' # NoRow
             /\ parse_arduino_data(line).balance < p_amount_due' )
             => /\ p_serial' = <<Command("I", 0)>>
                /\ p_pc' = "listen"
                /\ vehicle_log' = vehicle_log
      /\ \A message \in CsvMessages :
           ( /\ CsvMessage(message)
             /\ c_plate' # NoPlate
             /\ process_message(message).balance < c_amount_due' )
             => /\ c_serial' = <<Command("I", 0)>>
                /\ c_pc' = "listen"
                /\ plates_log' = plates_log
    ]_vars

\* The SQLite handshake's share of C13.
C13_SqlInsufficientFunds ==
  [][ \A line \in PayLines :
        ( /\ PayMessage(line)
          /\ p_rowid' # NoRow
          /\ parse_arduino_data(line).balance < p_amount_due' )
          => /\ p_serial' = <<Command("I", 0)>>
             /\ p_pc' = "listen"
             /\ vehicle_log' = vehicle_log ]_vars

\* The serial line holds a command of the given kind.
Wrote(serial, cmd) == \E i \in 1..Len(serial) : serial[i].cmd = cmd

\* The part of C14 after the probe: the new balance is written only by the
\* step that read READY, and the readiness timeout writes none and leaves
\* the ledger alone.
C14_BalanceAfterReady ==
  [][ /\ (Wrote(p_serial', "BALANCE") /\ ~Wrote(p_serial, "BALANCE"))
           => PayReadyLine(READY)
      /\ PayReadyTimeout
           => /\ clock - p_start_time > READY_TIMEOUT
              /\ ~Wrote(p_serial', "BALANCE")
              /\ vehicle_log' = vehicle_log ]_vars

\* C14: with a sufficient balance the handshake first writes a
\* ready-to-write probe, and writes the new balance (or the pay command)
\* only in a step that has read the readiness acknowledgement; when
\* READY_TIMEOUT passes without one it gives up with no balance written
\* and no ledger row changed.
C14_ReadinessPhase ==
  [][ /\ \A line \in PayLines :
           (PayMessage(line) /\ p_pc' = "wait_ready")
             => /\ Len(p_serial') = 1
                /\ p_serial'[1].cmd \notin {"I", "BALANCE"}
      /\ (Wrote(p_serial', "BALANCE") /\ ~Wrote(p_serial, "BALANCE"))
           => PayReadyLine(READY)
      /\ PayReadyTimeout
           => ~Wrote(p_serial', "BALANCE") /\ vehicle_log' = vehicle_log
      /\ \A message \in CsvMessages :
           CsvMessage(message) => ~Wrote(c_serial', "PAY")
    ]_vars

\* The exit lane's share of C15: a decision that changes the ledger changes
\* a newest unpaid row of the decided plate, and an alert it raises carries
\* the amount due of such a row.
C15_ExitSelectsNewest ==
  [][ ExitDecision
        => /\ vehicle_log' # vehicle_log => SettlesNewest(MostCommon(x_buffer))
           /\ Len(unauthorized_exit_alerts') > Len(unauthorized_exit_alerts)
                => \E i \in NewestUnpaid(MostCommon(x_buffer)) :
                     unauthorized_exit_alerts'[Len(unauthorized_exit_alerts')]
                       .due_payment = vehicle_log[i].due_payment ]_vars

\* C15: of several unpaid rows of a plate, the payment handshake (like the
\* exit decision) selects one with the latest entry time: the fee is
\* computed from it and it is the row the commit names, never an older one.
C15_MostRecentWins ==
  [][ \A line \in PayLines :
        (PayMessage(line) /\ p_rowid' # NoRow)
          => /\ p_rowid' \in NewestUnpaid(parse_arduino_data(line).plate)
             /\ \E i \in NewestUnpaid(parse_arduino_data(line).plate) :
                  p_amount_due' =
                    minutes_spent(vehicle_log[i].entry_time, clock)
                      * RATE_PER_MINUTE ]_vars

\* The alarm workers between their '2' and their 'S'.
AlarmsOn == {k \in 1..Len(x_threads) : x_threads[k].pc = "on"}

\* C16: the alarm worker's sequence ('2' ... 'S') and the lane loop's gate
\* sequence ('1' ... '0') never overlap on the serial line: while the gate
\* is held open between '1' and '0' no alarm worker is between '2' and 'S',
\* and neither sequence starts while the other is in progress.
C16_SerializedChannel ==
  ~(x_pc = "hold" /\ AlarmsOn # {})

\* ------------------------------------------------------------ interrupts
\* SIGINT on the entry lane: signal_handler calls sys.exit(0); SystemExit
\* is no Exception, so it passes every except clause and reaches the
\* finally block of main, which releases the camera and closes the port
\* without writing a byte.
EntryInterrupt ==
  /\ e_pc \notin {"off", "terminated"}
  /\ e_pc' = "terminated"
  /\ UNCHANGED <<clock, svars, payvars, dbvars, e_arduino, e_left, e_buffer,
                 last_saved_plate, last_entry_time, e_common, e_now,
                 e_serial, e_last, e_junk, xvars>>

\* SIGINT on the exit lane: sys.exit(0) reaches the finally block of main,
\* which writes the stop byte and closes the port; the alarm workers are
\* daemon threads and end with the process.
ExitInterrupt ==
  /\ x_pc \notin {"off", "terminated"}
  /\ x_pc' = "terminated"
  /\ x_serial' = ExitFinally(x_serial)
  /\ x_threads' = <<>>
  /\ UNCHANGED <<clock, svars, payvars, dbvars, evars, x_arduino, x_left, x_buffer,
                 last_processed_plate, last_exit_time, last_alert_time,
                 x_common, x_now, x_junk, x_outcome>>

\* Either lane alone, with an interrupt possible at every step.
NextInterrupt ==
  \/ NextLanes
  \/ EntryInterrupt
  \/ ExitInterrupt
SpecInterrupt == InitLanes /\ [][NextInterrupt]_vars

\* The last byte written to a serial line is b.
LastByte(serial, b) == Len(serial) > 0 /\ serial[Len(serial)] = b

\* The exit lane's alarm share of C17: an interrupt while an alarm worker
\* is between '2' and 'S' ends with the stop byte written.
C17_AlarmStopped ==
  [][ (ExitInterrupt /\ AlarmsOn # {}) => LastByte(x_serial', "S") ]_vars

\* C17: an interrupt that arrives while the gate is held open (between '1'
\* and '0') or while the alarm is on (between '2' and 'S') still has the
\* lane write the closing '0', respectively the stop 'S', before it
\* terminates.
C17_InterruptSafety ==
  [][ /\ (EntryInterrupt /\ e_pc = "hold")
           => CountByte(e_serial', "0") = CountByte(e_serial', "1")
      /\ (ExitInterrupt /\ x_pc = "hold")
           => CountByte(x_serial', "0") = CountByte(x_serial', "1")
      /\ (ExitInterrupt /\ AlarmsOn # {}) => LastByte(x_serial', "S")
    ]_vars

\* -------------------------------------------------------- storage faults
\* The entry decision when sqlite3 raises: has_unpaid_record catches the
\* error and returns False, insert_vehicle_log catches it and inserts
\* nothing; the caller sees neither and goes on to the gate.
EntryCheckFault(query_fails, insert_fails) ==
  /\ e_pc = "regions"
  /\ e_left = 0
  /\ query_fails \/ insert_fails
  /\ Len(e_buffer) >= CAPTURE_THRESHOLD
  /\ Len(vehicle_log) < MaxRows
  /\ UNCHANGED <<clock, svars, payvars, unauthorized_exit_alerts, e_arduino, e_left, xvars>>
  /\ e_junk' = FALSE
  /\ LET common == MostCommon(e_buffer)
         now == clock
         unpaid == IF query_fails THEN FALSE
                   ELSE has_unpaid_record(vehicle_log, common)
         admit == ~unpaid /\ EntryCooldownOver(common, now)
         log2 == IF admit /\ ~insert_fails
                 THEN insert_vehicle_log(vehicle_log, common, now)
                 ELSE vehicle_log
         serial2 == IF admit /\ e_arduino THEN Append(e_serial, "1")
                    ELSE e_serial
     IN /\ vehicle_log' = log2
        /\ e_serial' = serial2
        /\ e_last' = EntryObserved(common, now, log2, serial2)
        /\ IF admit /\ e_arduino
           THEN /\ e_pc' = "hold"
                /\ e_common' = common
                /\ e_now' = now
                /\ UNCHANGED <<e_buffer, last_saved_plate, last_entry_time>>
           ELSE /\ e_pc' = "frame"
                /\ e_buffer' = <<>>
                /\ last_saved_plate' = IF admit THEN common
                                       ELSE last_saved_plate
                /\ last_entry_time' = IF admit THEN now
                                      ELSE last_entry_time
                /\ UNCHANGED <<e_common, e_now>>

\* The exit decision when sqlite3 raises in get_unpaid_record,
\* log_unauthorized_exit or update_exit_log: none of them catches, the
\* error leaves the while loop for the except clause of main, and the
\* finally block writes the stop byte and closes the port.
ExitCheckFault ==
  /\ x_pc = "check"
  /\ Len(x_buffer) >= CAPTURE_THRESHOLD
  /\ ExitCooldownOver(MostCommon(x_buffer), clock)
  /\ x_pc' = "terminated"
  /\ x_serial' = ExitFinally(x_serial)
  /\ x_threads' = <<>>
  /\ x_junk' = FALSE
  /\ x_outcome' = "error"
  /\ UNCHANGED <<clock, svars, payvars, dbvars, evars, x_arduino, x_left, x_buffer,
                 last_processed_plate, last_exit_time, last_alert_time,
                 x_common, x_now>>

\* Either lane alone, with a storage error possible in every decision.
NextFaults ==
  \/ NextLanes
  \/ \E query_fails \in BOOLEAN, insert_fails \in BOOLEAN :
       EntryCheckFault(query_fails, insert_fails)
  \/ ExitCheckFault
SpecFaults == InitLanes /\ [][NextFaults]_vars

\* The part of C18 the entry lane keeps: a storage error never ends the
\* entry loop.
C18_EntryLoopContinues ==
  [][ \A query_fails \in BOOLEAN, insert_fails \in BOOLEAN :
        EntryCheckFault(query_fails, insert_fails)
          => e_pc' \in {"frame", "hold"} ]_vars

\* C18: a storage error during a decision abandons that decision only: no
\* gate or alarm byte is written for it, no alarm worker is started, and
\* the lane's loop goes on; it never ends the entry or the exit loop. (For
\* the entry lane the decisions named are those the error shows in: the
\* insert failed, or the query failed on a plate that has an unpaid row.)
C18_StorageErrorAbandons ==
  [][ /\ ExitCheckFault
           => /\ x_pc' # "terminated"
              /\ x_serial' = x_serial
              /\ x_threads' = x_threads
      /\ \A query_fails \in BOOLEAN :
           EntryCheckFault(query_fails, TRUE)
             => /\ e_pc' = "frame"
                /\ e_serial' = e_serial
      /\ ( /\ EntryCheckFault(TRUE, FALSE)
           /\ has_unpaid_record(vehicle_log, MostCommon(e_buffer)) )
             => /\ e_pc' = "frame"
                /\ e_serial' = e_serial
                /\ vehicle_log' = vehicle_log
    ]_vars

\* ----------------------------------------------------------- operator API
MaxAlerts == 2

\* Amounts an alert row may carry.
AlertDues == {15, 1200}

\* Ids a request may name: AUTOINCREMENT gives row i of the table the id i.
AlertIds == 0..(MaxAlerts + 1)

\* dict(row) of row i: its id and its columns.
alert_dict(table, i) ==
  [id |-> i, car_plate |-> table[i].car_plate,
   alert_time |-> table[i].alert_time, due_payment |-> table[i].due_payment,
   alert_type |-> table[i].alert_type, resolved |-> table[i].resolved]

\* alerts(): SELECT * FROM unauthorized_exit_alerts, every row.
alerts(table) == [i \in 1..Len(table) |-> alert_dict(table, i)]

\* cursor.rowcount of the UPDATE: the rows WHERE id = ? names.
resolve_rowcount(table, id) ==
  Cardinality({i \in 1..Len(table) : i = id})

\* The UPDATE without its WHERE clause: every row is marked.
resolve_update_all(table, id) ==
  [i \in 1..Len(table) |-> [table[i] EXCEPT !.resolved = 1]]

\* UPDATE unauthorized_exit_alerts SET resolved = 1 WHERE id = ?
resolve_update(table, id) ==
  [i \in 1..Len(table) |->
     IF i = id THEN [table[i] EXCEPT !.resolved = 1] ELSE table[i]]

Response(route, status) ==
  [route |-> route, status |-> status, body |-> <<>>,
   total_vehicles |-> NoCount, unpaid_vehicles |-> NoCount,
   active_alerts |-> NoCount]

\* The exit lane files an alert (log_unauthorized_exit) while the API runs.
RaiseAlert(plate, due_payment) ==
  /\ Len(unauthorized_exit_alerts) < MaxAlerts
  /\ unauthorized_exit_alerts' =
       log_unauthorized_exit(unauthorized_exit_alerts, plate, due_payment,
                             "PAYMENT_PENDING", clock)
  /\ UNCHANGED <<clock, svars, vehicle_log, evars, xvars, payvars>>

\* POST /api/resolve_alert/<id>
ResolveAlert(id) ==
  /\ IF resolve_rowcount(unauthorized_exit_alerts, id) = 0
     THEN /\ s_response' = Response("resolve_alert", 404)
          /\ UNCHANGED unauthorized_exit_alerts
     ELSE /\ unauthorized_exit_alerts' =
               resolve_update(unauthorized_exit_alerts, id)
          /\ s_response' = Response("resolve_alert", 200)
  /\ UNCHANGED <<clock, vehicle_log, evars, xvars, payvars>>

\* GET /api/alerts
ListAlerts ==
  /\ s_response' = [Response("alerts", 200) EXCEPT
                      !.body = alerts(unauthorized_exit_alerts)]
  /\ UNCHANGED <<clock, dbvars, evars, xvars, payvars>>

\* GET /api/stats
Stats ==
  /\ s_response' =
       [Response("stats", 200) EXCEPT
          !.total_vehicles = Len(vehicle_log),
          !.unpaid_vehicles =
             Cardinality({i \in 1..Len(vehicle_log) :
                            vehicle_log[i].payment_status = "0"}),
          !.active_alerts =
             Cardinality({i \in 1..Len(unauthorized_exit_alerts) :
                            unauthorized_exit_alerts[i].resolved = 0})]
  /\ UNCHANGED <<clock, dbvars, evars, xvars, payvars>>

\* The API over the alert table, with alerts filed while it runs.
InitServer ==
  /\ clock = Epoch
  /\ vehicle_log = <<>>
  /\ LanesOff
  /\ PayOff
  /\ CsvOff
  /\ ServerOff

NextServer ==
  \/ \E plate \in Plates, due_payment \in AlertDues :
       RaiseAlert(plate, due_payment)
  \/ \E id \in AlertIds : ResolveAlert(id)
  \/ ListAlerts
  \/ Stats

SpecServer == InitServer /\ [][NextServer]_vars

\* C19: resolving an alert that exists sets its resolved flag and changes
\* no other field, no other alert and no vehicle row; resolving an id no
\* alert has answers not found and leaves the ledger as it was; resolving
\* an alert that is already resolved leaves it resolved.
C19_ResolveAlert ==
  [][ \A id \in AlertIds :
        ResolveAlert(id)
          => /\ vehicle_log' = vehicle_log
             /\ IF id \in 1..Len(unauthorized_exit_alerts)
                THEN /\ s_response'.status = 200
                     /\ unauthorized_exit_alerts' =
                          [unauthorized_exit_alerts EXCEPT
                             ![id] = [@ EXCEPT !.resolved = 1]]
                     /\ unauthorized_exit_alerts[id].resolved = 1
                          => unauthorized_exit_alerts' =
                               unauthorized_exit_alerts
                ELSE /\ s_response'.status = 404
                     /\ unauthorized_exit_alerts' = unauthorized_exit_alerts
    ]_vars

\* An alert has been resolved while another one stays active.
C19_Witness ==
  /\ s_response.route = "resolve_alert"
  /\ s_response.status = 200
  /\ \E i, j \in 1..Len(unauthorized_exit_alerts) :
       /\ unauthorized_exit_alerts[i].resolved = 1
       /\ unauthorized_exit_alerts[j].resolved = 0

\* The rows of a listing that are not resolved.
IsActive(alert) == alert.resolved = 0
ActiveAlerts(table) == SelectSeq(alerts(table), IsActive)

\* The count share of C20: stats reports the number of unresolved alerts.
C20_StatsCountsActive ==
  [][ Stats => s_response'.active_alerts =
                 Len(ActiveAlerts(unauthorized_exit_alerts)) ]_vars

\* C20: the listing of alerts returns exactly the alerts whose resolved
\* flag is false, whatever alerts were raised and resolved before.
C20_ActiveAlertListing ==
  [][ ListAlerts
        => s_response'.body = ActiveAlerts(unauthorized_exit_alerts) ]_vars

\* --------------------------------------------------- a vehicle's whole stay
\* The three processes on one ledger, one after the other: the entry lane
\* admits, then the payment terminal sends messages, then the exit lane
\* decides.
PayInit ==
  /\ p_pc = "listen"
  /\ p_rowid = NoRow
  /\ p_exit_time = NoTime
  /\ p_amount_due = 0
  /\ p_new_balance = NoBalance
  /\ p_start_time = NoTime
  /\ p_serial = <<>>
  /\ p_confirm = <<>>

InitStay ==
  /\ clock = Epoch
  /\ ServerOff
  /\ CsvOff
  /\ vehicle_log \in InitLedgers
  /\ unauthorized_exit_alerts = <<>>
  /\ EntryInit
  /\ ExitInit
  /\ PayInit

\* The entry lane is between two frames with no candidate buffered.
EntryIdle == e_pc = "frame" /\ e_buffer = <<>>

\* No payment message has selected a record yet.
PayUntouched == p_pc = "listen" /\ p_rowid = NoRow /\ p_serial = <<>>

\* The exit lane has not read a candidate yet.
ExitUntouched ==
  /\ x_pc = "frame"
  /\ x_buffer = <<>>
  /\ x_serial = <<>>
  /\ last_processed_plate = NoPlate

\* One plate region a frame, read as the plate of the vehicle followed.
NextStay ==
  \/ /\ PayUntouched /\ ExitUntouched
     /\ \/ \E line \in SensorLines : EntryFrame(line, 1)
        \/ \E text \in {RAB123A} : EntryRegion(text)
        \/ EntryCheck
        \/ EntryGateClose
        \/ Tick
  \/ /\ EntryIdle /\ ExitUntouched
     /\ \/ \E line \in PayLines : PayMessage(line)
        \/ \E response \in Responses : PayReadyLine(response)
        \/ PayReadyTimeout
        \/ \E confirm \in Responses : PayDoneLine(confirm)
        \/ PayDoneTimeout
        \/ Tick
  \/ /\ EntryIdle /\ p_pc = "listen"
     /\ \/ \E line \in SensorLines : ExitFrame(line, 1)
        \/ \E text \in {RAB123A} : ExitRegion(text)
        \/ ExitCheck
        \/ ExitGateClose
        \/ \E k \in 1..MaxAlarms : AlarmOn(k)
        \/ \E k \in 1..MaxAlarms : AlarmOff(k)
        \/ Tick

SpecStay == InitStay /\ [][NextStay]_vars

\* The entry lane's last decision admitted the plate (row inserted, gate
\* opened), and the payment terminal's last message selected that row, found the balance short and
\* answered with the insufficient-funds token.
AdmittedThenShort(plate) ==
  /\ e_last.plate = plate
  /\ e_last.inserted = 1
  /\ e_last.opened = 1
  /\ p_pc = "listen"
  /\ p_serial = <<Command("I", 0)>>
  /\ p_rowid \in NewestUnpaid(plate)
  /\ vehicle_log[p_rowid].entry_time = e_last.now

\* C11: once the entry lane has admitted a plate and a payment message for
\* it has been answered with the insufficient-funds token, the next exit
\* decision on the plate finds the same unpaid row and denies: a
\* PAYMENT_PENDING alert row for the plate is added, no gate-open byte is
\* written, the row stays unpaid and the lane goes on.
C11_UnpaidStaysDenied ==
  [][ ( /\ ExitDecision
        /\ AdmittedThenShort(MostCommon(x_buffer))
        /\ ExitNotCooling(MostCommon(x_buffer))
        /\ AlertCooldownOver(clock) )
        => /\ x_pc' # "terminated"
           /\ Len(unauthorized_exit_alerts') =
                Len(unauthorized_exit_alerts) + 1
           /\ unauthorized_exit_alerts'[Len(unauthorized_exit_alerts')]
                .car_plate = MostCommon(x_buffer)
           /\ unauthorized_exit_alerts'[Len(unauthorized_exit_alerts')]
                .alert_type = "PAYMENT_PENDING"
           /\ CountByte(x_serial', "1") = CountByte(x_serial, "1")
           /\ vehicle_log' = vehicle_log ]_vars

\* C21: an exit decision on a plate that has no unpaid row takes no action:
\* no vehicle row and no alert row changes, no byte is written to the
\* controller, no alarm worker is started and the cooldown variables keep
\* their values; only the buffer is cleared.
C21_NothingToSettle ==
  [][ (ExitDecision /\ UnpaidRows(vehicle_log, MostCommon(x_buffer)) = {})
        => /\ vehicle_log' = vehicle_log
           /\ unauthorized_exit_alerts' = unauthorized_exit_alerts
           /\ x_serial' = x_serial
           /\ x_threads' = x_threads
           /\ x_pc' \in {"frame", "regions"}
           /\ x_buffer' = <<>> ]_vars

\* A decision outside the exit cooldown has just found no unpaid row, on a
\* lane with a controller and a ledger that holds rows.
C21_Witness ==
  /\ x_outcome = "skipped"
  /\ x_arduino
  /\ x_buffer = <<>>
  /\ vehicle_log # <<>>
  /\ x_serial = <<>>

\* C22: two PAYMENT_PENDING alert rows of one plate are never less than
\* ALERT_COOLDOWN apart (nor exactly that far), and every alert row comes
\* with one alarm worker, started in a decision taken more than
\* ALERT_COOLDOWN after the alert before it.
C22_AlertCooldown ==
  /\ [](\A i, j \in 1..Len(unauthorized_exit_alerts) :
          ( /\ i < j
            /\ unauthorized_exit_alerts[i].car_plate =
                 unauthorized_exit_alerts[j].car_plate )
            => unauthorized_exit_alerts[j].alert_time
                 - unauthorized_exit_alerts[i].alert_time > ALERT_COOLDOWN)
  /\ [][ ( \/ Len(unauthorized_exit_alerts') > Len(unauthorized_exit_alerts)
           \/ Len(x_threads') > Len(x_threads) )
           => /\ ExitDecision
              /\ clock - last_alert_time > ALERT_COOLDOWN
              /\ Len(unauthorized_exit_alerts') =
                   Len(unauthorized_exit_alerts) + 1
              /\ Len(x_threads') = Len(x_threads) + 1
              /\ last_alert_time' = clock ]_vars

\* A lingering debtor has been denied twice.
C22_Witness ==
  /\ x_outcome = "denied"
  /\ \E i, j \in 1..Len(unauthorized_exit_alerts) :
       /\ i < j
       /\ unauthorized_exit_alerts[i].car_plate =
            unauthorized_exit_alerts[j].car_plate
       /\ unauthorized_exit_alerts[j].car_plate = last_processed_plate
       /\ unauthorized_exit_alerts[j].alert_time = last_alert_time

\* A plate+balance message: two parts, a plate and a balance with a digit.
ValidMessage(line) ==
  /\ Len(line) = 2
  /\ line[1] # NoPlate
  /\ \E i \in 1..Len(line[2]) : IsDecimal(line[2][i])

\* C23: a handshake that gives up on the readiness or the completion
\* timeout writes nothing more and changes no row; from then on, while the
\* handshake listens, no row changes and nothing is written until a valid
\* plate+balance message is read, and a READY or DONE line read while
\* listening starts nothing and commits nothing.
C23_NoAutomaticRetry ==
  [][ /\ (PayReadyTimeout \/ PayDoneTimeout)
           => /\ p_pc' = "listen"
              /\ p_serial' = p_serial
              /\ vehicle_log' = vehicle_log
      /\ p_pc = "listen" => vehicle_log' = vehicle_log
      /\ (p_pc = "listen" /\ (p_pc' # "listen" \/ p_serial' \notin {<<>>, p_serial}))
           => \E line \in PayLines : PayMessage(line) /\ ValidMessage(line)
      /\ \A token \in {READY, DONE} :
           PayMessage(<<token>>)
             => /\ p_pc' = "listen"
                /\ p_serial' = <<>>
                /\ p_rowid' = NoRow
                /\ vehicle_log' = vehicle_log
    ]_vars

\* The handshake has given up on the completion timeout after the new
\* balance was written, and listens again with the row still unpaid.
C23_Witness ==
  /\ p_pc = "listen"
  /\ Wrote(p_serial, "BALANCE")
  /\ ~Contains(p_confirm, DONE)
  /\ clock - p_start_time > DONE_TIMEOUT
  /\ p_rowid # NoRow
  /\ vehicle_log[p_rowid].payment_status = "0"

\* C24: a lane acts on a plate (inserts or changes a vehicle row, writes an
\* alert row) only when the buffer it decides on holds at least
\* CAPTURE_THRESHOLD reads of that very plate string.
C24_ConsensusThreshold ==
  [][ /\ (EntryDecision /\ vehicle_log' # vehicle_log)
           => CountOf(e_buffer, e_last'.plate) >= CAPTURE_THRESHOLD
      /\ (ExitDecision /\ (vehicle_log' # vehicle_log
                           \/ unauthorized_exit_alerts'
                                # unauthorized_exit_alerts))
           => CountOf(x_buffer, MostCommon(x_buffer)) >= CAPTURE_THRESHOLD
    ]_vars

\* What the lanes do keep of C24: no lane acts before CAPTURE_THRESHOLD
\* validated reads are buffered.
C24_ActsOnFullBuffer ==
  [][ /\ (EntryCheck /\ (vehicle_log' # vehicle_log \/ e_serial' # e_serial))
           => Len(e_buffer) >= CAPTURE_THRESHOLD
      /\ (ExitCheck /\ (vehicle_log' # vehicle_log \/ x_serial' # x_serial
                             \/ unauthorized_exit_alerts'
                                  # unauthorized_exit_alerts))
           => Len(x_buffer) >= CAPTURE_THRESHOLD
    ]_vars

\* C25: an entry decision on a plate with no unpaid row admits it (inserts
\* its row and, with a controller, opens the gate) if and only if the
\* plate differs from last_saved_plate or more than ENTRY_COOLDOWN seconds
\* have passed since last_entry_time.
C25_EntryAdmissionRule ==
  [][ (EntryDecision /\ ~e_last'.unpaid)
        => LET admitted == e_last'.inserted = 1
               allowed == \/ e_last'.plate # last_saved_plate
                          \/ clock - last_entry_time > ENTRY_COOLDOWN
           IN /\ admitted <=> allowed
              /\ ~admitted => e_last'.inserted = 0 /\ e_last'.opened = 0
              /\ admitted => e_last'.opened = (IF e_arduino THEN 1 ELSE 0)
    ]_vars

\* The plate admitted at last_entry_time, whose row has been paid since, has
\* just been admitted again after the cooldown: its second row is in the
\* ledger and the gate is open.
C25_Witness ==
  /\ e_pc = "hold"
  /\ e_last.plate = last_saved_plate
  /\ e_last.inserted = 1
  /\ e_last.opened = 1
  /\ e_last.now - last_entry_time > ENTRY_COOLDOWN
  /\ \E i, j \in 1..Len(vehicle_log) :
       /\ vehicle_log[i].car_plate = e_last.plate
       /\ vehicle_log[i].entry_time = last_entry_time
       /\ vehicle_log[i].payment_status = "1"
       /\ vehicle_log[j].car_plate = e_last.plate
       /\ vehicle_log[j].entry_time = e_last.now
       /\ vehicle_log[j].payment_status = "0"

\* The row an admission of the plate at the given time adds to the ledger:
\* the last one, unpaid, with no exit time.
AdmissionRow(plate, now) ==
  /\ Len(vehicle_log') = Len(vehicle_log) + 1
  /\ SubSeq(vehicle_log', 1, Len(vehicle_log)) = vehicle_log
  /\ vehicle_log'[Len(vehicle_log')].car_plate = plate
  /\ vehicle_log'[Len(vehicle_log')].entry_time = now
  /\ vehicle_log'[Len(vehicle_log')].payment_status = "0"
  /\ vehicle_log'[Len(vehicle_log')].exit_time = NoTime

\* The gate is held open: nothing of the lane moves until the close.
HeldOpen ==
  (e_pc = "hold" /\ e_pc' = "hold")
    => /\ e_buffer' = e_buffer /\ e_left' = e_left /\ e_serial' = e_serial
       /\ last_saved_plate' = last_saved_plate
       /\ last_entry_time' = last_entry_time
       /\ Len(vehicle_log') = Len(vehicle_log)

\* The close after GATE_OPEN_TIME, and only then the cooldown variables.
ClosedThenRemembered ==
  (e_pc = "hold" /\ e_pc' # "hold")
    => /\ clock >= e_now + GATE_OPEN_TIME
       /\ e_serial' = Append(e_serial, "0")
       /\ last_saved_plate' = e_common
       /\ last_entry_time' = e_now
       /\ e_pc' = "frame"

IsGateByte(b) == b \in {"1", "0"}

GateBytes(serial) == SelectSeq(serial, IsGateByte)

\* '1', '0', '1', '0', ...: every OPEN is followed by its CLOSE before the
\* next OPEN.
Alternates(gate) ==
  \A i \in 1..Len(gate) : gate[i] = (IF i % 2 = 1 THEN "1" ELSE "0")

GateOpen(serial) == Len(GateBytes(serial)) % 2 = 1

\* C27: on each lane's serial channel the gate commands strictly alternate,
\* starting with OPEN; while an OPEN waits for its CLOSE the lane reads no
\* frame, buffers no plate and takes no plate decision, and the only gate
\* command it writes is the CLOSE.
C27_GateNotRetriggered ==
  /\ [](/\ Alternates(GateBytes(e_serial))
        /\ Alternates(GateBytes(x_serial))
        /\ GateOpen(e_serial) <=> e_pc = "hold"
        /\ GateOpen(x_serial) <=> x_pc = "hold")
  /\ [][ /\ GateOpen(e_serial)
            => /\ ~EntryCheck
               /\ e_buffer' = e_buffer \/ e_serial' = Append(e_serial, "0")
               /\ e_last' = e_last
               /\ e_left' = e_left
               /\ GateBytes(e_serial') \in {GateBytes(e_serial),
                                            Append(GateBytes(e_serial), "0")}
         /\ GateOpen(x_serial)
            => /\ ~ExitCheck
               /\ x_buffer' = x_buffer \/ GateOpen(x_serial) # GateOpen(x_serial')
               /\ x_outcome' = x_outcome
               /\ x_left' = x_left
               /\ GateBytes(x_serial') \in {GateBytes(x_serial),
                                            Append(GateBytes(x_serial), "0")}
       ]_vars

\* A lane has opened its gate a second time, after the close of the first
\* cycle, and closed it again.
C27_Witness ==
  /\ GateBytes(e_serial) = <<"1", "0", "1", "0">>
  /\ e_pc = "frame"
  /\ e_last.opened = 1
  /\ last_saved_plate = e_last.plate

\* C28: the plate buffer of each lane never holds more than
\* CAPTURE_THRESHOLD candidates, and a consensus decision is taken on
\* exactly CAPTURE_THRESHOLD candidates.
C28_BoundedBuffer ==
  /\ [](/\ Len(e_buffer) <= CAPTURE_THRESHOLD
        /\ Len(x_buffer) <= CAPTURE_THRESHOLD)
  /\ [][ /\ EntryDecision => Len(e_buffer) = CAPTURE_THRESHOLD
         /\ ExitDecision => Len(x_buffer) = CAPTURE_THRESHOLD ]_vars

\* The exit lane's share of C28, which its loop keeps: the test follows
\* every append.
C28_ExitBufferBounded ==
  /\ [](Len(x_buffer) <= CAPTURE_THRESHOLD)
  /\ [][ExitDecision => Len(x_buffer) = CAPTURE_THRESHOLD]_vars

\* ------------------------------- exit lane and payment terminal together
\* The exit lane and the SQLite payment terminal run side by side on one
\* ledger, both following the plate RAB123A: one plate region a frame,
\* messages of the terminal with a balance above and below the fee.
RacePayLines == { <<RAB123A, <<"1", "5">>>>, <<RAB123A, <<"5">>>> }

\* The ledgers that hold rows of that plate only.
RaceLedgers ==
  {log \in InitLedgers : \A i \in 1..Len(log) : log[i].car_plate = RAB123A}

InitRace ==
  /\ clock = Epoch
  /\ ServerOff
  /\ CsvOff
  /\ vehicle_log \in RaceLedgers
  /\ unauthorized_exit_alerts = <<>>
  /\ EntryOff
  /\ ExitInit
  /\ PayInit

NextRace ==
  \/ \E line \in SensorLines : ExitFrame(line, 1)
  \/ \E text \in {RAB123A} : ExitRegion(text)
  \/ ExitCheck
  \/ ExitGateClose
  \/ \E k \in 1..MaxAlarms : AlarmOn(k)
  \/ \E k \in 1..MaxAlarms : AlarmOff(k)
  \/ \E line \in RacePayLines : PayMessage(line)
  \/ \E response \in Responses : PayReadyLine(response)
  \/ PayReadyTimeout
  \/ \E confirm \in Responses : PayDoneLine(confirm)
  \/ PayDoneTimeout
  \/ PayTick

SpecRace == InitRace /\ [][NextRace]_vars

PaidUp(plate) ==
  /\ \E i \in 1..Len(vehicle_log) : vehicle_log[i].car_plate = plate
  /\ \A i \in 1..Len(vehicle_log) :
       vehicle_log[i].car_plate = plate
         => vehicle_log[i].payment_status = "1"

\* C30: an exit decision on a plate whose record is paid, not held back by
\* the exit cooldown, opens the gate (and the close follows after
\* GATE_OPEN_TIME) when the gate controller is connected.
C30_PaidVehicleLeaves ==
  [][ (/\ ExitDecision
       /\ x_arduino
       /\ PaidUp(MostCommon(x_buffer))
       /\ ExitNotCooling(MostCommon(x_buffer)))
        => /\ x_serial' = Append(x_serial, "1")
           /\ x_pc' = "hold" ]_vars

\* The step writes a gate-open byte on the entry lane's channel.
EntryOpens == CountByte(e_serial', "1") > CountByte(e_serial, "1")

\* The step inserts a row of the plate the decision trusted.
InsertsTrusted ==
  /\ Len(vehicle_log') = Len(vehicle_log) + 1
  /\ vehicle_log'[Len(vehicle_log')].car_plate = e_last'.plate
  /\ e_last'.plate = MostCommon(e_buffer)

\* C31: the entry lane writes '1' only in a decision that inserted a row
\* of the trusted plate; a decision in which the unpaid-record query or the
\* insert failed with a storage error writes no gate command. (The
\* decisions named are those the error shows in: the insert failed, or the
\* query failed on a plate that has an unpaid row.)
C31_GateOnlyWithRecord ==
  [][ /\ EntryOpens => InsertsTrusted
      /\ \A query_fails \in BOOLEAN :
           EntryCheckFault(query_fails, TRUE) => ~EntryOpens
      /\ ( /\ EntryCheckFault(TRUE, FALSE)
           /\ has_unpaid_record(vehicle_log, MostCommon(e_buffer)) )
             => ~EntryOpens ]_vars

\* The share of C31 the lane keeps while storage answers: without a
\* storage error every '1' comes with the insert of the trusted plate.
C31_GateWithRecordNoFault ==
  [][ EntryOpens => InsertsTrusted ]_vars

\* The newest unpaid row of the plate is the one the entry lane's last
\* decision inserted.
InsertedByEntry(plate) ==
  /\ e_last.plate = plate
  /\ e_last.inserted = 1
  /\ NewestUnpaid(plate) # {}
  /\ \A i \in NewestUnpaid(plate) : vehicle_log[i].entry_time = e_last.now

\* The exit half of C32: an exit decision on a row the entry lane inserted
\* evaluates due_payment > 0 without an error and the exit loop goes on.
C32_ExitTestDefined ==
  [][ ( /\ ExitDecision
        /\ InsertedByEntry(MostCommon(x_buffer))
        /\ ExitNotCooling(MostCommon(x_buffer)) )
        => /\ x_outcome' \in {"denied", "settled"}
           /\ x_pc' # "terminated" ]_vars

\* C32: every row an entry admission inserts carries a due_payment that is
\* a number, zero until computed, and the exit lane's test due_payment > 0
\* on such a row is defined: the decision ends as a denial or a settlement,
\* never as an error that ends the exit loop.
C32_DuePaymentAgreed ==
  [][ /\ (EntryDecision /\ e_last'.inserted = 1)
           => /\ vehicle_log'[Len(vehicle_log')].due_type = "real"
              /\ vehicle_log'[Len(vehicle_log')].due_payment = 0
      /\ ( /\ ExitDecision
           /\ InsertedByEntry(MostCommon(x_buffer))
           /\ ExitNotCooling(MostCommon(x_buffer)) )
           => /\ x_outcome' \in {"denied", "settled"}
              /\ x_pc' # "terminated" ]_vars

\* ---------------------------------------------- all processes, one ledger
\* Entry lane, exit lane, payment terminal and the payment_success tool run
\* side by side from an empty ledger, all following the plate RAB123A: one
\* plate region a frame.
InitSession ==
  /\ clock = Epoch
  /\ ServerOff
  /\ CsvOff
  /\ vehicle_log = <<>>
  /\ unauthorized_exit_alerts = <<>>
  /\ EntryInit
  /\ ExitInit
  /\ PayInit

NextSession ==
  \/ \E line \in SensorLines : EntryFrame(line, 1)
  \/ \E text \in {RAB123A} : EntryRegion(text)
  \/ EntryCheck
  \/ EntryGateClose
  \/ \E line \in SensorLines : ExitFrame(line, 1)
  \/ \E text \in {RAB123A} : ExitRegion(text)
  \/ ExitCheck
  \/ \E line \in RacePayLines : PayMessage(line)
  \/ \E response \in Responses : PayReadyLine(response)
  \/ PayReadyTimeout
  \/ \E confirm \in Responses : PayDoneLine(confirm)
  \/ PayDoneTimeout
  \/ \E plate \in {RAB123A} : MarkPaymentSuccess(plate)
  \/ Tick

SpecSession == InitSession /\ [][NextSession]_vars

\* On a ledger filled by the entry lane the exit lane never opens its gate
\* and never starts an alarm worker (every unpaid row carries the
\* due_payment '' of the insert), so the close of the exit gate and the
\* steps of the alarm workers have nothing to act on in SpecSession.
SessionExitNeverActs ==
  /\ x_pc # "hold"
  /\ x_threads = <<>>
  /\ x_outcome \notin {"denied", "settled"}

\* C33: from an empty ledger, through entry decisions, exit decisions and
\* payment handshakes, every plate has at most one unpaid row.
C33_OneOpenSession ==
  \A plate \in Plates : Cardinality(UnpaidRows(vehicle_log, plate)) <= 1

\* The plate was admitted, paid, and admitted again: one unpaid row next to
\* a paid one, and a further entry decision on it was refused.
C33_Witness ==
  /\ Cardinality(UnpaidRows(vehicle_log, RAB123A)) = 1
  /\ \E i \in 1..Len(vehicle_log) :
       vehicle_log[i].car_plate = RAB123A /\ vehicle_log[i].payment_status = "1"
  /\ e_last.plate = RAB123A
  /\ e_last.unpaid
  /\ e_last.inserted = 0

\* ------------------------------------------- every writer of the ledger
\* A vehicle RAC456B arrives at the entry lane (no gate controller) while
\* RAB123A is at the exit lane and at the payment terminal; the
\* payment_success tool and the operator's resolve requests run alongside.
\* The entry lane works until the exit lane or the terminal has started;
\* from then on exit lane, terminal, tool and API interleave freely.
\* Sensor lines with a number, within and beyond the range, with and
\* without the DIST: prefix.
LedgerSensorLines ==
  {line \in SensorLines : line.waiting /\ line.numeric /\ line.val \in {25, 51}}

\* The lines of the terminal that move the handshake on.
LedgerResponses == {READY, DONE}

InitLedger ==
  /\ clock = Epoch
  /\ ServerOff
  /\ CsvOff
  /\ vehicle_log \in RaceLedgers
  /\ unauthorized_exit_alerts = <<>>
  /\ EntryInit
  /\ ~e_arduino
  /\ ExitInit
  /\ PayInit

NextLedger ==
  \/ /\ PayUntouched /\ ExitUntouched
     /\ \/ \E line \in LedgerSensorLines : EntryFrame(line, 1)
        \/ \E text \in {RAC456B} : EntryRegion(text)
        \/ EntryCheck
  \/ /\ EntryIdle
     /\ \/ \E line \in LedgerSensorLines : ExitFrame(line, 1)
        \/ \E text \in {RAB123A} : ExitRegion(text)
        \/ ExitCheck
        \/ ExitGateClose
        \/ \E k \in 1..MaxAlarms : AlarmOn(k)
        \/ \E k \in 1..MaxAlarms : AlarmOff(k)
        \/ \E line \in RacePayLines : PayMessage(line)
        \/ \E response \in LedgerResponses : PayReadyLine(response)
        \/ PayReadyTimeout
        \/ \E confirm \in LedgerResponses : PayDoneLine(confirm)
        \/ PayDoneTimeout
        \/ \E plate \in {RAB123A} : MarkPaymentSuccess(plate)
        \/ \E id \in AlertIds : ResolveAlert(id)
        \/ Tick

SpecLedger == InitLedger /\ [][NextLedger]_vars

\* Row i of the vehicle ledger is still there, the same session, and has
\* not gone from paid back to unpaid.
VehicleRowKept(i) ==
  /\ i <= Len(vehicle_log')
  /\ vehicle_log'[i].car_plate = vehicle_log[i].car_plate
  /\ vehicle_log'[i].entry_time = vehicle_log[i].entry_time
  /\ vehicle_log[i].payment_status = "1"
       => vehicle_log'[i].payment_status = "1"

\* Alert i is still there, and it has changed only if this step is the
\* resolve request for it, which sets its resolved flag and nothing else.
AlertRowKept(i) ==
  /\ i <= Len(unauthorized_exit_alerts')
  /\ \/ unauthorized_exit_alerts'[i] = unauthorized_exit_alerts[i]
     \/ /\ ResolveAlert(i)
        /\ unauthorized_exit_alerts'[i] =
             [unauthorized_exit_alerts[i] EXCEPT !.resolved = 1]

\* C34: no step of the entry lane, the exit lane, the payment handshake,
\* the payment tool or the API deletes a vehicle row or an alert row, turns
\* a paid row back to unpaid, or changes an alert row other than by the
\* resolve request for it; the lanes only append alerts.
C34_LedgerMonotone ==
  [][ /\ \A i \in 1..Len(vehicle_log) : VehicleRowKept(i)
      /\ \A i \in 1..Len(unauthorized_exit_alerts) : AlertRowKept(i)
      /\ (ExitCheck \/ EntryCheck)
           => SubSeq(unauthorized_exit_alerts', 1,
                     Len(unauthorized_exit_alerts)) = unauthorized_exit_alerts
    ]_vars

\* Every kind of writer has acted: the entry lane inserted a row, the exit
\* lane settled one (paid, exit time set), the tool marked one paid, the
\* exit lane filed an alert and the operator resolved it.
C34_Witness ==
  /\ e_last.inserted = 1
  /\ \E i \in 1..Len(vehicle_log) :
       vehicle_log[i].payment_status = "1" /\ vehicle_log[i].exit_time # NoTime
  /\ \E i \in 1..Len(vehicle_log) :
       vehicle_log[i].payment_status = "1" /\ vehicle_log[i].exit_time = NoTime
  /\ \E i \in 1..Len(unauthorized_exit_alerts) :
       unauthorized_exit_alerts[i].resolved = 1
  /\ s_response.route = "resolve_alert"

====
